---- MODULE Spec2Model ----
(***************************************************************************)
(* State-machine model of the nxp_simtemp sample pipeline: the hrtimer     *)
(* callback that generates samples, the ring buffer, the wait queue and    *)
(* the read() file operation (kernel/nxp_simtemp.c).                       *)
(***************************************************************************)
EXTENDS Integers, Sequences, FiniteSets, TLC

(***************************************************************************)
(* Program constants                                                       *)
(***************************************************************************)
RING_BUFFER_SIZE == 64
RING_BUFFER_MASK == RING_BUFFER_SIZE - 1
DEFAULT_SAMPLING_MS == 100
DEFAULT_THRESHOLD_MC == 45000
SIMTEMP_MODE_NORMAL == 0
SIMTEMP_MODE_NOISY == 1
SIMTEMP_MODE_RAMP == 2
DEFAULT_MODE == SIMTEMP_MODE_NORMAL
SIMTEMP_FLAG_NEW_SAMPLE == 1
SIMTEMP_FLAG_THRESHOLD_CROSSED == 2
SizeofSample == 16
InitialTempMC == 40000
SIMTEMP_SAMPLING_MS_MIN == 1
SIMTEMP_SAMPLING_MS_MAX == 10000
SIMTEMP_THRESHOLD_MC_MIN == -40000
SIMTEMP_THRESHOLD_MC_MAX == 125000

(***************************************************************************)
(* Bounds of the model                                                     *)
(***************************************************************************)
NumConsumers == 2
MaxTicks == 2
MaxCalls == 2
MaxFillTicks == 70
MaxFillCalls == 2
MaxLiveTicks == 3
MaxLiveCalls == 2
MaxRingPuts == 67
NumWriters == 2
MaxWrites == 1
MaxSeqTicks == 5
MaxThrTicks == 6
MaxRampTicks == 145
MaxGenTicks == 2
MaxRaceWrites == 2
MaxShutTicks == 2
MaxShutCalls == 2
MaxShutWrites == 1
MaxPollTicks == 3
MaxPolls == 2
MaxPollCalls == 1
MaxLockTicks == 2
MaxLockCalls == 1
MaxLockPolls == 1
MaxLockWrites == 1
MaxCancelTicks == 2
MaxCancelCalls == 1
MaxCancelWrites == 1
MaxCountTicks == 2
MaxCountPolls == 3
MaxCountCalls == 1
MaxInitTicks == 2
MaxInitCalls == 2
MaxInitWrites == 1
MaxModeTicks == 3
MaxModeWrites == 3
MaxModeCfgWrites == 1
MaxModeCalls == 1
MaxModePolls == 1
MaxSlotTicks == 3
MaxSlotReads == 3
MaxSlotPolls == 1
MaxSlotOpens == 2
NumSeeds == 1

Consumers == 1..NumConsumers
Writers == 1..NumWriters

\* the contexts that can hold dev->ringbuf.lock: consumer c is context c, the
\* timer callback and writer w are the contexts below
CallbackCtx == NumConsumers + 1

WriterCtx(w) == NumConsumers + 1 + w

(***************************************************************************)
(* C integer arithmetic                                                    *)
(***************************************************************************)
\* C integers are modelled by TLA+ integers; every value of the model stays
\* far below 2^31, and the unsigned subtraction head - tail is and-ed as a
\* two's-complement bit pattern, which is what wrap-around modulo 2^32 gives.

\* bitwise a & b for b >= 0 (a negative a is read in two's complement)
RECURSIVE BitAnd(_, _)
BitAnd(a, b) ==
    IF a = 0 \/ b = 0 THEN 0
    ELSE (IF a % 2 = 1 /\ b % 2 = 1 THEN 1 ELSE 0) + 2 * BitAnd(a \div 2, b \div 2)

\* faulty variant of BitOr: the value is assigned, not or-ed in
BitAssign(a, b) == b

\* bitwise a | b on non-negative integers
RECURSIVE BitOr(_, _)
BitOr(a, b) ==
    IF a = 0 THEN b
    ELSE IF b = 0 THEN a
    ELSE (IF a % 2 = 1 \/ b % 2 = 1 THEN 1 ELSE 0) + 2 * BitOr(a \div 2, b \div 2)

\* ms_to_ktime(): milliseconds to ktime.  ktime values and timestamps are
\* kept in microseconds (1000 ns each) so that they fit TLC's integers.
ms_to_ktime(ms) == ms * 1000

(***************************************************************************)
(* struct simtemp_sample and struct simtemp_ringbuf                        *)
(***************************************************************************)
ZeroSample == [timestamp_ns |-> 0, temp_mC |-> 0, flags |-> 0]

\* simtemp_ringbuf_init(): head = tail = 0, buffer zeroed
simtemp_ringbuf_init ==
    [buffer |-> [i \in 0..(RING_BUFFER_SIZE - 1) |-> ZeroSample],
     head |-> 0,
     tail |-> 0]

simtemp_ringbuf_empty(rb) == rb.head = rb.tail

simtemp_ringbuf_count(rb) == BitAnd(rb.head - rb.tail, RING_BUFFER_MASK)

\* faulty variants of simtemp_ringbuf_put
PutOverwriteOldest(rb, sample) ==
    LET head == rb.head
        next_head == BitAnd(head + 1, RING_BUFFER_MASK)
    IN  IF next_head = rb.tail
        THEN [rb |-> [rb EXCEPT !.buffer[head] = sample,
                                !.head = next_head,
                                !.tail = BitAnd(rb.tail + 1, RING_BUFFER_MASK)],
              ret |-> "OK"]
        ELSE [rb |-> [rb EXCEPT !.buffer[head] = sample, !.head = next_head],
              ret |-> "OK"]

PutNoFullCheck(rb, sample) ==
    LET head == rb.head
        next_head == BitAnd(head + 1, RING_BUFFER_MASK)
    IN  [rb |-> [rb EXCEPT !.buffer[head] = sample, !.head = next_head],
         ret |-> "OK"]

PutFullWritesSlot(rb, sample) ==
    LET head == rb.head
        next_head == BitAnd(head + 1, RING_BUFFER_MASK)
    IN  IF next_head = rb.tail
        THEN [rb |-> [rb EXCEPT !.buffer[head] = sample], ret |-> "ENOSPC"]
        ELSE [rb |-> [rb EXCEPT !.buffer[head] = sample, !.head = next_head],
              ret |-> "OK"]

\* simtemp_ringbuf_put(): result is the new ring buffer and the return code
simtemp_ringbuf_put(rb, sample) ==
    LET head == rb.head
        next_head == BitAnd(head + 1, RING_BUFFER_MASK)
    IN  IF next_head = rb.tail
        THEN [rb |-> rb, ret |-> "ENOSPC"]
        ELSE [rb |-> [rb EXCEPT !.buffer[head] = sample, !.head = next_head],
              ret |-> "OK"]

\* faulty variants of simtemp_ringbuf_get
GetNewest(rb) ==
    IF simtemp_ringbuf_empty(rb)
    THEN [rb |-> rb, ret |-> "EAGAIN", sample |-> ZeroSample]
    ELSE LET last == BitAnd(rb.head + RING_BUFFER_MASK, RING_BUFFER_MASK)
         IN  [rb |-> [rb EXCEPT !.head = last],
              ret |-> "OK",
              sample |-> rb.buffer[last]]

GetNoAdvance(rb) ==
    IF simtemp_ringbuf_empty(rb)
    THEN [rb |-> rb, ret |-> "EAGAIN", sample |-> ZeroSample]
    ELSE [rb |-> rb, ret |-> "OK", sample |-> rb.buffer[rb.tail]]

GetEmptyAdvancesTail(rb) ==
    LET tail == rb.tail
        moved == [rb EXCEPT !.tail = BitAnd(tail + 1, RING_BUFFER_MASK)]
    IN  IF simtemp_ringbuf_empty(rb)
        THEN [rb |-> moved, ret |-> "EAGAIN", sample |-> ZeroSample]
        ELSE [rb |-> moved, ret |-> "OK", sample |-> rb.buffer[tail]]

\* simtemp_ringbuf_get(): result is the new ring buffer, the return code and
\* the sample copied out
simtemp_ringbuf_get(rb) ==
    IF simtemp_ringbuf_empty(rb)
    THEN [rb |-> rb, ret |-> "EAGAIN", sample |-> ZeroSample]
    ELSE LET tail == rb.tail
         IN  [rb |-> [rb EXCEPT !.tail = BitAnd(tail + 1, RING_BUFFER_MASK)],
              ret |-> "OK",
              sample |-> rb.buffer[tail]]

\* the live entries of the ring buffer, oldest first
RECURSIVE LiveFrom(_, _)
LiveFrom(rb, i) ==
    IF i = rb.head THEN <<>>
    ELSE <<rb.buffer[i]>> \o LiveFrom(rb, (i + 1) % RING_BUFFER_SIZE)

Live(rb) == LiveFrom(rb, rb.tail)

(***************************************************************************)
(* Temperature generation                                                  *)
(***************************************************************************)
\* get_random_bytes(): the stream of random words is fixed by the seed drawn
\* in Init; each call returns the current word and steps the stream
RandomSeed(k) == 1000 * k + 500

NextRandom(r) == (r * 75 + 74) % 65537

\* faulty variants of simtemp_generate_temperature: the ramp turns one step
\* late at both ends; the normal and noisy variations are wider
GenerateLateTurn(m, cur, dir, random) ==
    IF m = SIMTEMP_MODE_NORMAL
    THEN [temp_mC |-> 45000 + ((random % 4000) - 2000),
          current_temp_mC |-> cur, ramp_direction |-> dir, drew |-> TRUE]
    ELSE IF m = SIMTEMP_MODE_NOISY
    THEN LET t == 45000 + ((random % 30000) - 15000)
             lo == IF t < 30000 THEN 30000 ELSE t
             hi == IF lo > 60000 THEN 60000 ELSE lo
         IN  [temp_mC |-> hi,
              current_temp_mC |-> cur, ramp_direction |-> dir, drew |-> TRUE]
    ELSE IF m = SIMTEMP_MODE_RAMP
    THEN IF dir
         THEN [temp_mC |-> cur + 500, current_temp_mC |-> cur + 500,
               ramp_direction |-> cur + 500 <= 70000, drew |-> FALSE]
         ELSE [temp_mC |-> cur - 500, current_temp_mC |-> cur - 500,
               ramp_direction |-> cur - 500 < 30000, drew |-> FALSE]
    ELSE [temp_mC |-> 45000,
          current_temp_mC |-> cur, ramp_direction |-> dir, drew |-> FALSE]

GenerateWide(m, cur, dir, random) ==
    IF m = SIMTEMP_MODE_NORMAL
    THEN [temp_mC |-> 45000 + ((random % 5000) - 2000),
          current_temp_mC |-> cur, ramp_direction |-> dir, drew |-> TRUE]
    ELSE IF m = SIMTEMP_MODE_NOISY
    THEN [temp_mC |-> 45000 + ((random % 32000) - 16000),
          current_temp_mC |-> cur, ramp_direction |-> dir, drew |-> TRUE]
    ELSE IF m = SIMTEMP_MODE_RAMP
    THEN IF dir
         THEN [temp_mC |-> cur + 500, current_temp_mC |-> cur + 500,
               ramp_direction |-> cur + 500 < 70000, drew |-> FALSE]
         ELSE [temp_mC |-> cur - 500, current_temp_mC |-> cur - 500,
               ramp_direction |-> cur - 500 <= 30000, drew |-> FALSE]
    ELSE [temp_mC |-> 45000,
          current_temp_mC |-> cur, ramp_direction |-> dir, drew |-> FALSE]

\* simtemp_generate_temperature(): result is the temperature, the updated
\* generator state and whether a random word was drawn
simtemp_generate_temperature(m, cur, dir, random) ==
    IF m = SIMTEMP_MODE_NORMAL
    THEN [temp_mC |-> 45000 + ((random % 4000) - 2000),
          current_temp_mC |-> cur, ramp_direction |-> dir, drew |-> TRUE]
    ELSE IF m = SIMTEMP_MODE_NOISY
    THEN LET t == 45000 + ((random % 30000) - 15000)
             lo == IF t < 30000 THEN 30000 ELSE t
             hi == IF lo > 60000 THEN 60000 ELSE lo
         IN  [temp_mC |-> hi,
              current_temp_mC |-> cur, ramp_direction |-> dir, drew |-> TRUE]
    ELSE IF m = SIMTEMP_MODE_RAMP
    THEN IF dir
         THEN LET up == cur + 500
              IN  IF up >= 70000
                  THEN [temp_mC |-> 70000, current_temp_mC |-> 70000,
                        ramp_direction |-> FALSE, drew |-> FALSE]
                  ELSE [temp_mC |-> up, current_temp_mC |-> up,
                        ramp_direction |-> TRUE, drew |-> FALSE]
         ELSE LET down == cur - 500
              IN  IF down <= 30000
                  THEN [temp_mC |-> 30000, current_temp_mC |-> 30000,
                        ramp_direction |-> TRUE, drew |-> FALSE]
                  ELSE [temp_mC |-> down, current_temp_mC |-> down,
                        ramp_direction |-> FALSE, drew |-> FALSE]
    ELSE [temp_mC |-> 45000,
          current_temp_mC |-> cur, ramp_direction |-> dir, drew |-> FALSE]

(***************************************************************************)
(* State                                                                   *)
(***************************************************************************)
VARIABLES
    ringbuf,            \* dev->ringbuf: buffer, head, tail
    stats,              \* dev->stats: the four counters
    threshold_crossed,  \* dev->threshold_crossed
    sampling_ms,        \* dev->sampling_ms
    sampling_period,    \* dev->sampling_period (ktime)
    threshold_mC,       \* dev->threshold_mC
    mode,               \* dev->mode
    current_temp_mC,    \* dev->current_temp_mC
    ramp_direction,     \* dev->ramp_direction
    timer,              \* dev->timer: enqueued, expires
    now,                \* the monotonic clock read by ktime_get_ns()
    rnd,                \* the next word get_random_bytes() returns
    cb,                 \* the frame of simtemp_timer_callback
    task,               \* per consumer: the frame of simtemp_read and the task state
    wait_queue,         \* dev->wait_queue: the consumers enqueued on it
    history,            \* per tick, the sample built and what put returned
    delivered,          \* per consumer, the samples its reads returned
    taken,              \* the samples reads dequeued, in dequeue order
    config_lock,        \* dev->config_lock: 0 when free, else the writer holding it
    wr,                 \* per writer: the frame of the sysfs store it is in
    h,                  \* the frame of the ring-buffer test harness
    rm,                 \* the frame of simtemp_remove
    rb_lock,            \* dev->ringbuf.lock: 0 when free, else the context holding it
    probe,              \* the frame of simtemp_probe and what it has registered
    fake_temp           \* the single-slot variant: its statics, its file and its reader

vars == <<ringbuf, stats, threshold_crossed, sampling_ms, sampling_period,
          threshold_mC, mode, current_temp_mC, ramp_direction, timer, now, rnd,
          cb, task, wait_queue, history, delivered, taken, config_lock, wr, h,
          rm, rb_lock, probe, fake_temp>>

configVars == <<sampling_ms, sampling_period, threshold_mC, mode, config_lock,
                wr>>
consumerVars == <<task, wait_queue, delivered>>
ghostVars == <<taken, h>>
producerVars == <<threshold_crossed, current_temp_mC, ramp_direction, timer,
                  now, rnd, cb, history>>

IdleCb == [pc |-> "idle", temp_mC |-> 0, sample |-> ZeroSample,
           threshold_crossed |-> FALSE, ret |-> "OK"]

\* a writer: where it is in a store, the return value of its last finished
\* store, its stores so far, and the attribute, the text and the meant value
\* of its last store
IdleWriter == [pc |-> "idle", ret |-> "NONE", writes |-> 0,
               attr |-> "none", buf |-> <<>>, num |-> FALSE, val |-> 0]

\* a consumer: where it is in simtemp_read or simtemp_poll, O_NONBLOCK and
\* count of the read, the local sample, the loaded counter, the return value
\* of its last finished read, its scheduling state, signal and wait-loop
\* flags, its reads so far, the local mask of simtemp_poll (after the return:
\* the mask returned) and its polls so far
IdleTask == [pc |-> "idle", nonblock |-> FALSE, count |-> 0,
             sample |-> ZeroSample, ret |-> "NONE",
             state |-> "RUNNING", sigpending |-> FALSE, int |-> FALSE,
             tmp |-> 0, slept |-> FALSE, calls |-> 0,
             mask |-> 0, polls |-> 0]

\* the harness: the samples put, what each put returned, the samples got, what
\* the last get returned, and whether a put followed a get
IdleHarness == [puts |-> <<>>, rets |-> <<>>, gets |-> <<>>, last |-> "NONE",
                mixed |-> FALSE]

\* simtemp_remove has not been called
IdleRemove == [pc |-> "idle"]

\* the single-slot variant after temp_module_init: the statics
\* current_temp, temp_ready and temp_buffer, whether temp_work is queued and
\* whether it runs,
\* the timer expiries and updates so far, the file position of the open
\* file and the opens so far, and the reader: where it is in temp_read, its
\* count and whether its buffer is writable, what its last read returned
\* and copied out, its reads so far, and the mask and number of its polls
IdleSlot == [current_temp |-> 0, temp_ready |-> 0, temp_buffer |-> <<>>,
             pending |-> FALSE, running |-> FALSE, ticks |-> 0,
             updates |-> 0,
             f_pos |-> 0, opens |-> 1,
             pc |-> "idle", count |-> 0, bufok |-> TRUE,
             ret |-> 0, out |-> <<>>, reads |-> 0,
             mask |-> 0, polls |-> 0]

\* simtemp_probe has returned 0: the misc device and the attribute group
\* are registered
ProbeDone == [pc |-> "done", ret |-> "OK", misc |-> TRUE, sysfs |-> TRUE]

\* simtemp_probe() without Device Tree overrides, up to hrtimer_start()
Init ==
    /\ ringbuf = simtemp_ringbuf_init
    /\ stats = [total_samples |-> 0, threshold_alerts |-> 0,
                read_count |-> 0, poll_count |-> 0]
    /\ threshold_crossed = FALSE
    /\ sampling_ms = DEFAULT_SAMPLING_MS
    /\ sampling_period = ms_to_ktime(DEFAULT_SAMPLING_MS)
    /\ threshold_mC = DEFAULT_THRESHOLD_MC
    /\ mode = DEFAULT_MODE
    /\ current_temp_mC = InitialTempMC
    /\ ramp_direction = TRUE
    /\ timer = [enqueued |-> TRUE, expires |-> ms_to_ktime(DEFAULT_SAMPLING_MS)]
    /\ now = 0
    /\ rnd \in {RandomSeed(k) : k \in 1..NumSeeds}
    /\ cb = IdleCb
    /\ task = [c \in Consumers |-> IdleTask]
    /\ wait_queue = {}
    /\ history = <<>>
    /\ delivered = [c \in Consumers |-> <<>>]
    /\ taken = <<>>
    /\ config_lock = 0
    /\ wr = [w \in Writers |-> IdleWriter]
    /\ h = IdleHarness
    /\ rm = IdleRemove
    /\ rb_lock = 0
    /\ probe = ProbeDone
    /\ fake_temp = IdleSlot

(***************************************************************************)
(* The producer: the hrtimer and simtemp_timer_callback                    *)
(***************************************************************************)
\* hrtimer_forward_now(): move the expiry past now in steps of interval
hrtimer_forward_now(expires, interval) ==
    IF now < expires THEN expires
    ELSE expires + (((now - expires) \div interval) + 1) * interval

\* wake_up_interruptible(): every enqueued waiter sleeping in
\* TASK_INTERRUPTIBLE is made runnable and leaves the queue
\* (autoremove_wake_function)
\* faulty variant of Woken: the wake-up reaches no waiter
WokenNone == {}

Woken == {c \in wait_queue \cap Consumers : task[c].state = "INTERRUPTIBLE"}

wake_up_interruptible ==
    /\ task' = [c \in Consumers |->
                  IF c \in Woken THEN [task[c] EXCEPT !.state = "RUNNING"]
                  ELSE task[c]]
    /\ wait_queue' = wait_queue \ Woken

\* faulty variants of ThresholdCheck: the flag follows the level, not the
\* edge; the latch is never released
ThresholdCheckLevel(temp_mC, threshold, latch) ==
    [edge |-> temp_mC > threshold, latch |-> temp_mC > threshold]

ThresholdCheckSticky(temp_mC, threshold, latch) ==
    [edge |-> temp_mC > threshold /\ ~latch,
     latch |-> latch \/ temp_mC > threshold]

\* the threshold check of simtemp_timer_callback: whether this sample is an
\* upward crossing, and the new value of dev->threshold_crossed
ThresholdCheck(temp_mC, threshold, latch) ==
    IF temp_mC > threshold
    THEN [edge |-> ~latch, latch |-> TRUE]
    ELSE [edge |-> FALSE, latch |-> FALSE]

\* the timer expires (the clock reaches timer.expires, the hrtimer core
\* dequeues the timer) and simtemp_timer_callback runs up to the ring-buffer
\* lock: generate the temperature, build the sample, check the threshold.
\* random is the word get_random_bytes() returns if the mode draws one, and
\* next_rnd the word it returns after that
CallbackEntry(limit, random, next_rnd) ==
    /\ timer.enqueued
    /\ cb.pc = "idle"
    /\ Len(history) < limit
    /\ now' = timer.expires
    /\ timer' = [timer EXCEPT !.enqueued = FALSE]
    /\ LET g == simtemp_generate_temperature(mode, current_temp_mC,
                                             ramp_direction, random)
           base == [timestamp_ns |-> now', temp_mC |-> g.temp_mC,
                    flags |-> SIMTEMP_FLAG_NEW_SAMPLE]
           chk == ThresholdCheck(g.temp_mC, threshold_mC, threshold_crossed)
           edge == chk.edge
       IN  /\ current_temp_mC' = g.current_temp_mC
           /\ ramp_direction' = g.ramp_direction
           /\ rnd' = IF g.drew THEN next_rnd ELSE rnd
           /\ cb' = [pc |-> "put",
                     temp_mC |-> g.temp_mC,
                     threshold_crossed |-> edge,
                     sample |-> IF edge
                                THEN [base EXCEPT !.flags =
                                        BitOr(base.flags,
                                              SIMTEMP_FLAG_THRESHOLD_CROSSED)]
                                ELSE base,
                     ret |-> "OK"]
           /\ threshold_crossed' = chk.latch
           /\ stats' = IF edge
                       THEN [stats EXCEPT !.threshold_alerts = @ + 1]
                       ELSE stats
    /\ UNCHANGED <<ringbuf, configVars, consumerVars, history, taken, h, rm, probe, fake_temp,
                   rb_lock>>

\* a tick whose random word comes from the stream seeded in Init
TimerFire(limit) == CallbackEntry(limit, rnd, NextRandom(rnd))

\* a tick whose random word is any word of Words
TimerFireWords(limit, Words) ==
    \E random \in Words : CallbackEntry(limit, random, rnd)

\* spin_lock_irqsave() succeeds for context ctx: the lock is free, or ctx
\* took it in an earlier step
SpinLockOpen(ctx) == rb_lock \in {0, ctx}

\* spin_lock_irqsave; simtemp_ringbuf_put; spin_unlock_irqrestore;
\* dev->stats.total_samples++
CbPut ==
    /\ cb.pc = "put"
    /\ SpinLockOpen(CallbackCtx)
    /\ LET r == simtemp_ringbuf_put(ringbuf, cb.sample)
       IN  /\ ringbuf' = r.rb
           /\ cb' = [cb EXCEPT !.pc = "wake", !.ret = r.ret]
           /\ history' = Append(history, [sample |-> cb.sample, ret |-> r.ret])
    /\ rb_lock' = 0
    /\ stats' = [stats EXCEPT !.total_samples = @ + 1]
    /\ UNCHANGED <<threshold_crossed, configVars, current_temp_mC,
                   ramp_direction, timer, now, rnd, consumerVars, taken, h, rm, probe, fake_temp>>

\* spin_lock_irqsave(&dev->ringbuf.lock) of the callback, as a step of its
\* own: the lock is held until CbPut
CbLock ==
    /\ cb.pc = "put"
    /\ rb_lock = 0
    /\ rb_lock' = CallbackCtx
    /\ UNCHANGED <<ringbuf, stats, producerVars, configVars, consumerVars,
                   taken, h, rm, probe, fake_temp>>

\* faulty variant of CbWake: the callback takes config_lock to read
\* sampling_period
CbWakeLocksConfig ==
    /\ cb.pc = "wake"
    /\ config_lock = 0
    /\ wake_up_interruptible
    /\ timer' = [enqueued |-> TRUE,
                 expires |-> hrtimer_forward_now(timer.expires, sampling_period)]
    /\ cb' = [cb EXCEPT !.pc = "idle"]
    /\ UNCHANGED <<ringbuf, stats, threshold_crossed, configVars,
                   current_temp_mC, ramp_direction, now, rnd, history,
                   delivered, taken, h, rm, probe, fake_temp,
                   rb_lock>>

\* wake_up_interruptible(&dev->wait_queue); hrtimer_forward_now();
\* return HRTIMER_RESTART: the core enqueues the timer again
CbWake ==
    /\ cb.pc = "wake"
    /\ wake_up_interruptible
    /\ timer' = [enqueued |-> TRUE,
                 expires |-> hrtimer_forward_now(timer.expires, sampling_period)]
    /\ cb' = [cb EXCEPT !.pc = "idle"]
    /\ UNCHANGED <<ringbuf, stats, threshold_crossed, configVars,
                   current_temp_mC, ramp_direction, now, rnd, history,
                   delivered, taken, h, rm, probe, fake_temp,
                   rb_lock>>

(***************************************************************************)
(* The consumers: simtemp_read                                             *)
(***************************************************************************)
\* the arguments of a read() call: O_NONBLOCK of the file and the count
ReadArgs == [nonblock : BOOLEAN, count : {SizeofSample - 1, SizeofSample}]

NonBlockingArgs == {[nonblock |-> TRUE, count |-> SizeofSample]}

BlockingArgs == {[nonblock |-> FALSE, count |-> SizeofSample]}

\* the read() calls entered so far, by all consumers
RECURSIVE CallsUpTo(_)
CallsUpTo(n) ==
    IF n = 0 THEN 0
    ELSE CallsUpTo(n - 1) + task[n].calls + (IF task[n].pc = "idle" THEN 0 ELSE 1)

CallsEntered == CallsUpTo(NumConsumers)

\* simtemp_read returns code: its locals are gone and, back in user space, a
\* pending signal is handled
Returned(t, code) ==
    [t EXCEPT !.pc = "idle", !.calls = @ + 1, !.sigpending = FALSE,
              !.int = FALSE, !.state = "RUNNING", !.tmp = 0, !.slept = FALSE,
              !.sample = ZeroSample, !.ret = code]

\* faulty variant of ReadEnter: the size is validated only when there is
\* nothing to read
ReadEnterLateSizeCheck(c, limit, Args) ==
    /\ task[c].pc = "idle"
    /\ CallsEntered < limit
    /\ \E a \in Args :
         LET t == [task[c] EXCEPT !.nonblock = a.nonblock,
                                  !.count = a.count, !.ret = "NONE"]
             r == simtemp_ringbuf_get(ringbuf)
         IN  IF a.count < SizeofSample /\ simtemp_ringbuf_empty(ringbuf)
             THEN /\ task' = [task EXCEPT ![c] = Returned(t, "EINVAL")]
                  /\ UNCHANGED <<ringbuf, taken>>
             ELSE IF a.nonblock
             THEN /\ SpinLockOpen(c)
                  /\ ringbuf' = r.rb
                  /\ taken' = IF r.ret = "EAGAIN" THEN taken
                              ELSE Append(taken, r.sample)
                  /\ task' = [task EXCEPT ![c] =
                                IF r.ret = "EAGAIN" THEN Returned(t, "EAGAIN")
                                ELSE [t EXCEPT !.pc = "rc_load",
                                               !.sample = r.sample]]
             ELSE /\ task' = [task EXCEPT ![c] =
                                [t EXCEPT !.pc =
                                   IF ~simtemp_ringbuf_empty(ringbuf)
                                   THEN "bl_get" ELSE "wait_prep"]]
                  /\ UNCHANGED <<ringbuf, taken>>
    /\ UNCHANGED <<stats, producerVars, configVars, wait_queue, delivered, h, rm, probe, fake_temp,
                   rb_lock>>

\* read() is entered and the buffer size validated.  O_NONBLOCK: lock;
\* simtemp_ringbuf_get; unlock; -EAGAIN when empty.  Blocking:
\* wait_event_interruptible() first tests the condition without sleeping
ReadEnter(c, limit, Args) ==
    /\ task[c].pc = "idle"
    /\ CallsEntered < limit
    /\ \E a \in Args :
         LET t == [task[c] EXCEPT !.nonblock = a.nonblock,
                                  !.count = a.count, !.ret = "NONE"]
             r == simtemp_ringbuf_get(ringbuf)
         IN  IF a.count < SizeofSample
             THEN /\ task' = [task EXCEPT ![c] = Returned(t, "EINVAL")]
                  /\ UNCHANGED <<ringbuf, taken>>
             ELSE IF a.nonblock
             THEN /\ SpinLockOpen(c)
                  /\ ringbuf' = r.rb
                  /\ taken' = IF r.ret = "EAGAIN" THEN taken
                              ELSE Append(taken, r.sample)
                  /\ task' = [task EXCEPT ![c] =
                                IF r.ret = "EAGAIN" THEN Returned(t, "EAGAIN")
                                ELSE [t EXCEPT !.pc = "rc_load",
                                               !.sample = r.sample]]
             ELSE /\ task' = [task EXCEPT ![c] =
                                [t EXCEPT !.pc =
                                   IF ~simtemp_ringbuf_empty(ringbuf)
                                   THEN "bl_get" ELSE "wait_prep"]]
                  /\ UNCHANGED <<ringbuf, taken>>
    /\ UNCHANGED <<stats, producerVars, configVars, wait_queue, delivered, h, rm, probe, fake_temp,
                   rb_lock>>

\* prepare_to_wait_event(): with a signal pending the task leaves the queue
\* and the wait is interrupted; otherwise it is enqueued and its state set
\* to TASK_INTERRUPTIBLE
WaitPrepare(c) ==
    /\ task[c].pc = "wait_prep"
    /\ IF task[c].sigpending
       THEN /\ task' = [task EXCEPT ![c] =
                          [@ EXCEPT !.pc = "wait_chk", !.int = TRUE]]
            /\ wait_queue' = wait_queue \ {c}
       ELSE /\ task' = [task EXCEPT ![c] =
                          [@ EXCEPT !.pc = "wait_chk", !.int = FALSE,
                                    !.state = "INTERRUPTIBLE"]]
            /\ wait_queue' = wait_queue \cup {c}
    /\ UNCHANGED <<ringbuf, stats, producerVars, configVars, delivered,
                   taken, h, rm, probe, fake_temp,
                   rb_lock>>

\* faulty variant of WaitCheck: an interrupted read is counted in read_count
WaitCheckCountsCancelled(c) ==
    /\ task[c].pc = "wait_chk"
    /\ IF ~simtemp_ringbuf_empty(ringbuf)
       THEN /\ task' = [task EXCEPT ![c] =
                          [@ EXCEPT !.pc = "bl_get", !.state = "RUNNING",
                                    !.int = FALSE]]
            /\ wait_queue' = wait_queue \ {c}
            /\ UNCHANGED stats
       ELSE IF task[c].int
       THEN /\ task' = [task EXCEPT ![c] = Returned(@, "ERESTARTSYS")]
            /\ wait_queue' = wait_queue \ {c}
            /\ stats' = [stats EXCEPT !.read_count = @ + 1]
       ELSE /\ task' = [task EXCEPT ![c] =
                          [@ EXCEPT !.pc = "wait_sched", !.slept = TRUE]]
            /\ UNCHANGED <<wait_queue, stats>>
    /\ UNCHANGED <<ringbuf, producerVars, configVars, delivered, taken, h, rm, probe, fake_temp,
                   rb_lock>>

\* the loop of ___wait_event(): test the condition, then the interruption,
\* else go to schedule(); finish_wait() on leaving the loop
WaitCheck(c) ==
    /\ task[c].pc = "wait_chk"
    /\ IF ~simtemp_ringbuf_empty(ringbuf)
       THEN /\ task' = [task EXCEPT ![c] =
                          [@ EXCEPT !.pc = "bl_get", !.state = "RUNNING",
                                    !.int = FALSE]]
            /\ wait_queue' = wait_queue \ {c}
       ELSE IF task[c].int
       THEN /\ task' = [task EXCEPT ![c] = Returned(@, "ERESTARTSYS")]
            /\ wait_queue' = wait_queue \ {c}
       ELSE /\ task' = [task EXCEPT ![c] =
                          [@ EXCEPT !.pc = "wait_sched", !.slept = TRUE]]
            /\ UNCHANGED wait_queue
    /\ UNCHANGED <<ringbuf, stats, producerVars, configVars, delivered,
                   taken, h, rm, probe, fake_temp,
                   rb_lock>>

\* schedule(): returns once the task is runnable (it was woken, or a signal
\* is pending); a task in TASK_INTERRUPTIBLE stays asleep
WaitSchedule(c) ==
    /\ task[c].pc = "wait_sched"
    /\ task[c].state = "RUNNING" \/ task[c].sigpending
    /\ task' = [task EXCEPT ![c] =
                  [@ EXCEPT !.pc = "wait_prep", !.state = "RUNNING"]]
    /\ UNCHANGED <<ringbuf, stats, producerVars, configVars, wait_queue,
                   delivered, taken, h, rm, probe, fake_temp,
                   rb_lock>>

\* a signal is sent to a consumer waiting in a blocking read: it becomes
\* pending and a task sleeping in TASK_INTERRUPTIBLE is made runnable
Signal(c) ==
    /\ task[c].pc \in {"wait_prep", "wait_chk", "wait_sched"}
    /\ ~task[c].sigpending
    /\ task' = [task EXCEPT ![c] =
                  [@ EXCEPT !.sigpending = TRUE, !.state = "RUNNING"]]
    /\ UNCHANGED <<ringbuf, stats, producerVars, configVars, wait_queue,
                   delivered, taken, h, rm, probe, fake_temp,
                   rb_lock>>

\* blocking mode after the wait: lock; simtemp_ringbuf_get; unlock;
\* -EAGAIN when the buffer is empty
BlGet(c) ==
    /\ task[c].pc = "bl_get"
    /\ SpinLockOpen(c)
    /\ LET r == simtemp_ringbuf_get(ringbuf)
       IN  /\ ringbuf' = r.rb
           /\ task' = [task EXCEPT ![c] =
                         IF r.ret # "OK" THEN Returned(@, "EAGAIN")
                         ELSE [@ EXCEPT !.pc = "rc_load", !.sample = r.sample]]
           /\ taken' = IF r.ret # "OK" THEN taken ELSE Append(taken, r.sample)
    /\ rb_lock' = 0
    /\ UNCHANGED <<stats, producerVars, configVars, wait_queue, delivered, h, rm, probe, fake_temp>>

\* spin_lock_irqsave(&dev->ringbuf.lock) of a consumer about to get a sample
\* or to test the buffer in simtemp_poll, as a step of its own: the lock is
\* held until BlGet or PollData
ConsumerLock(c) ==
    /\ task[c].pc \in {"bl_get", "poll_data"}
    /\ rb_lock = 0
    /\ rb_lock' = c
    /\ UNCHANGED <<ringbuf, stats, producerVars, configVars, consumerVars,
                   taken, h, rm, probe, fake_temp>>

\* dev->stats.read_count++ is an unlocked load ...
RcLoad(c) ==
    /\ task[c].pc = "rc_load"
    /\ task' = [task EXCEPT ![c] =
                  [@ EXCEPT !.pc = "rc_store", !.tmp = stats.read_count]]
    /\ UNCHANGED <<ringbuf, stats, producerVars, configVars, wait_queue,
                   delivered, taken, h, rm, probe, fake_temp,
                   rb_lock>>

\* ... and store; then copy_to_user(), which succeeds or not as the user
\* buffer (drawn from Bufs: writable or not) decides; return sizeof(sample),
\* or -EFAULT
RcStore(c, Bufs) ==
    /\ task[c].pc = "rc_store"
    /\ stats' = [stats EXCEPT !.read_count = task[c].tmp + 1]
    /\ \E bufok \in Bufs :
         IF bufok
         THEN /\ delivered' = [delivered EXCEPT ![c] = Append(@, task[c].sample)]
              /\ task' = [task EXCEPT ![c] = Returned(@, "OK")]
         ELSE /\ UNCHANGED delivered
              /\ task' = [task EXCEPT ![c] = Returned(@, "EFAULT")]
    /\ UNCHANGED <<ringbuf, producerVars, configVars, wait_queue, taken, h, rm, probe, fake_temp,
                   rb_lock>>

(***************************************************************************)
(* The consumers: simtemp_poll                                             *)
(***************************************************************************)
\* the event bits of the mask simtemp_poll returns
EPOLLIN == 1
EPOLLPRI == 2
EPOLLRDNORM == 64

\* the entry poll_wait() adds to dev->wait_queue for consumer c
PollEntry(c) == NumConsumers + c

\* the poll() calls entered so far, by all consumers
RECURSIVE PollsEnteredUpTo(_)
PollsEnteredUpTo(n) ==
    IF n = 0 THEN 0
    ELSE PollsEnteredUpTo(n - 1) + task[n].polls
         + (IF task[n].pc \in {"poll_count", "poll_data", "poll_pri"}
            THEN 1 ELSE 0)

PollsEntered == PollsEnteredUpTo(NumConsumers)

\* simtemp_poll is entered: mask = 0; poll_wait(); dev->stats.poll_count++ is
\* an unlocked load ...
PollEnter(c, limit) ==
    /\ task[c].pc = "idle"
    /\ PollsEntered < limit
    /\ task' = [task EXCEPT ![c] =
                  [@ EXCEPT !.pc = "poll_count", !.mask = 0,
                            !.tmp = stats.poll_count]]
    /\ wait_queue' = wait_queue \cup {PollEntry(c)}
    /\ UNCHANGED <<ringbuf, stats, producerVars, configVars, delivered,
                   taken, h, rm, probe, fake_temp, rb_lock>>

\* ... and store
PollCount(c) ==
    /\ task[c].pc = "poll_count"
    /\ stats' = [stats EXCEPT !.poll_count = task[c].tmp + 1]
    /\ task' = [task EXCEPT ![c] = [@ EXCEPT !.pc = "poll_data", !.tmp = 0]]
    /\ UNCHANGED <<ringbuf, producerVars, configVars, wait_queue, delivered,
                   taken, h, rm, probe, fake_temp, rb_lock>>

\* faulty variant of PollData: readable is reported without looking at the
\* buffer
PollDataAlways(c) ==
    /\ task[c].pc = "poll_data"
    /\ task' = [task EXCEPT ![c] =
                  [@ EXCEPT !.pc = "poll_pri",
                            !.mask = BitOr(@, BitOr(EPOLLIN, EPOLLRDNORM))]]
    /\ UNCHANGED <<ringbuf, stats, producerVars, configVars, wait_queue,
                   delivered, taken, h, rm, probe, fake_temp, rb_lock>>

\* spin_lock_irqsave; if (!simtemp_ringbuf_empty()) mask |= EPOLLIN |
\* EPOLLRDNORM; spin_unlock_irqrestore
PollData(c) ==
    /\ task[c].pc = "poll_data"
    /\ SpinLockOpen(c)
    /\ task' = [task EXCEPT ![c] =
                  [@ EXCEPT !.pc = "poll_pri",
                            !.mask = IF ~simtemp_ringbuf_empty(ringbuf)
                                     THEN BitOr(@, BitOr(EPOLLIN, EPOLLRDNORM))
                                     ELSE @]]
    /\ rb_lock' = 0
    /\ UNCHANGED <<ringbuf, stats, producerVars, configVars, wait_queue,
                   delivered, taken, h, rm, probe, fake_temp>>

\* if (dev->threshold_crossed) mask |= EPOLLPRI; return mask: the poll core
\* takes the entry off the wait queue before the system call returns
PollPri(c) ==
    /\ task[c].pc = "poll_pri"
    /\ task' = [task EXCEPT ![c] =
                  [@ EXCEPT !.pc = "idle", !.polls = @ + 1,
                            !.mask = IF threshold_crossed
                                     THEN BitOr(@, EPOLLPRI) ELSE @]]
    /\ wait_queue' = wait_queue \ {PollEntry(c)}
    /\ UNCHANGED <<ringbuf, stats, producerVars, configVars, delivered,
                   taken, h, rm, probe, fake_temp, rb_lock>>

(***************************************************************************)
(* The writers: the sysfs store functions                                  *)
(***************************************************************************)
\* the stores entered so far, by all writers
RECURSIVE WritesUpTo(_)
WritesUpTo(n) ==
    IF n = 0 THEN 0
    ELSE WritesUpTo(n - 1) + wr[n].writes + (IF wr[n].pc = "idle" THEN 0 ELSE 1)

WritesEntered == WritesUpTo(NumWriters)

\* the text of a sysfs write or read: a sequence of characters
DigitChars == <<"0", "1", "2", "3", "4", "5", "6", "7", "8", "9">>

IsDigit(ch) == \E d \in 1..10 : DigitChars[d] = ch

DigitValue(ch) == (CHOOSE d \in 1..10 : DigitChars[d] = ch) - 1

\* the decimal digits of n >= 0, as printed by %u and %d
RECURSIVE Decimal(_)
Decimal(n) ==
    IF n < 10 THEN <<DigitChars[n + 1]>>
    ELSE Append(Decimal(n \div 10), DigitChars[(n % 10) + 1])

\* sysfs_emit(buf, "%u\n", n) and sysfs_emit(buf, "%d\n", n)
EmitUnsigned(n) == Append(Decimal(n), "\n")

EmitInt(n) ==
    IF n < 0 THEN <<"-">> \o Append(Decimal(0 - n), "\n")
    ELSE Append(Decimal(n), "\n")

\* the digits at the start of s: their value and their number
RECURSIVE ParseDigits(_, _, _)
ParseDigits(s, val, n) ==
    IF s # <<>> /\ IsDigit(Head(s))
    THEN ParseDigits(Tail(s), 10 * val + DigitValue(Head(s)), n + 1)
    ELSE [val |-> val, n |-> n, rest |-> s]

\* the base-10 parse shared by kstrtouint() and kstrtoint(): at least one
\* digit, then an optional newline, then the end of the text.  The texts of
\* the model have at most seven digits, so the value always fits the type
\* and the -ERANGE return is never taken.
ParseUnsigned(s) ==
    LET p == ParseDigits(s, 0, 0)
        rest == IF p.rest # <<>> /\ Head(p.rest) = "\n" THEN Tail(p.rest)
                ELSE p.rest
    IN  IF p.n = 0 \/ rest # <<>>
        THEN [ret |-> "EINVAL", val |-> 0]
        ELSE [ret |-> "OK", val |-> p.val]

\* kstrtouint(buf, 10, &val): an optional '+', then the digits
kstrtouint(s) ==
    IF s # <<>> /\ Head(s) = "+" THEN ParseUnsigned(Tail(s))
    ELSE ParseUnsigned(s)

\* kstrtoint(buf, 10, &val): '-' and the digits, or as kstrtouint
kstrtoint(s) ==
    IF s # <<>> /\ Head(s) = "-"
    THEN LET p == ParseUnsigned(Tail(s))
         IN  [ret |-> p.ret, val |-> 0 - p.val]
    ELSE kstrtouint(s)

\* sysfs_streq(): equal up to one trailing newline
StripNewline(s) ==
    IF s # <<>> /\ s[Len(s)] = "\n" THEN SubSeq(s, 1, Len(s) - 1) ELSE s

sysfs_streq(s1, s2) == StripNewline(s1) = StripNewline(s2)

\* the mode names of mode_store() and mode_show()
NameNormal == <<"n", "o", "r", "m", "a", "l">>

NameNoisy == <<"n", "o", "i", "s", "y">>

NameRamp == <<"r", "a", "m", "p">>

NameUnknown == <<"u", "n", "k", "n", "o", "w", "n">>

\* sampling_ms_show(), threshold_mC_show(), mode_show(): the text read
sampling_ms_show == EmitUnsigned(sampling_ms)

threshold_mC_show == EmitInt(threshold_mC)

mode_show ==
    Append(IF mode = SIMTEMP_MODE_NORMAL THEN NameNormal
           ELSE IF mode = SIMTEMP_MODE_NOISY THEN NameNoisy
           ELSE IF mode = SIMTEMP_MODE_RAMP THEN NameRamp
           ELSE NameUnknown, "\n")

\* a store is entered on attribute attr with the write in: its text in.buf,
\* whether the caller means a value by it (in.num) and which (in.val)
Entered(t, attr, in) ==
    [t EXCEPT !.attr = attr, !.buf = in.buf, !.num = in.num, !.val = in.val]

\* a store returns code
Stored(t, code) == [t EXCEPT !.pc = "idle", !.writes = @ + 1, !.ret = code]

\* faulty variants of the stores: the range check admits one value more at
\* its upper end; sampling_ms_store does not take config_lock
ThresholdStoreWideRange(w, limit, Inputs) ==
    /\ wr[w].pc = "idle"
    /\ WritesEntered < limit
    /\ \E in \in Inputs :
         LET p == kstrtoint(in.buf)
             t == Entered(wr[w], "threshold_mC", in)
         IN  IF p.ret # "OK"
             THEN /\ wr' = [wr EXCEPT ![w] = Stored(t, p.ret)]
                  /\ UNCHANGED threshold_mC
             ELSE IF \/ p.val < SIMTEMP_THRESHOLD_MC_MIN
                     \/ p.val > SIMTEMP_THRESHOLD_MC_MAX + 1
             THEN /\ wr' = [wr EXCEPT ![w] = Stored(t, "EINVAL")]
                  /\ UNCHANGED threshold_mC
             ELSE /\ config_lock = 0
                  /\ threshold_mC' = p.val
                  /\ wr' = [wr EXCEPT ![w] = Stored(t, "OK")]
    /\ UNCHANGED <<ringbuf, stats, producerVars, consumerVars, sampling_ms,
                   sampling_period, mode, config_lock, taken, h, rm, probe, fake_temp,
                   rb_lock>>

SamplingStoreNoLock(w, limit, Inputs) ==
    /\ wr[w].pc = "idle"
    /\ WritesEntered < limit
    /\ \E in \in Inputs :
         LET p == kstrtouint(in.buf)
             t == Entered(wr[w], "sampling_ms", in)
         IN  /\ p.ret = "OK"
             /\ p.val >= SIMTEMP_SAMPLING_MS_MIN
             /\ p.val <= SIMTEMP_SAMPLING_MS_MAX
             /\ config_lock' = w
             /\ sampling_ms' = p.val
             /\ sampling_period' = ms_to_ktime(p.val)
             /\ wr' = [wr EXCEPT ![w] = [t EXCEPT !.pc = "restart"]]
    /\ UNCHANGED <<ringbuf, stats, producerVars, consumerVars, threshold_mC,
                   mode, taken, h, rm, probe, fake_temp,
                   rb_lock>>

\* faulty variant of threshold_mC_store: the write re-evaluates the latch
\* against the temperature of the last tick
ThresholdStoreReclassify(w, limit, Inputs) ==
    /\ wr[w].pc = "idle"
    /\ WritesEntered < limit
    /\ \E in \in Inputs :
         LET p == kstrtoint(in.buf)
             t == Entered(wr[w], "threshold_mC", in)
         IN  /\ p.ret = "OK"
             /\ config_lock = 0
             /\ threshold_mC' = p.val
             /\ threshold_crossed' = (cb.temp_mC > p.val)
             /\ wr' = [wr EXCEPT ![w] = Stored(t, "OK")]
    /\ UNCHANGED <<ringbuf, stats, current_temp_mC, ramp_direction, timer, now,
                   rnd, cb, history, consumerVars, sampling_ms,
                   sampling_period, mode, config_lock, taken, h, rm, probe, fake_temp,
                   rb_lock>>

\* threshold_mC_store(): parse, validate the range, then mutex_lock;
\* dev->threshold_mC = val; mutex_unlock
threshold_mC_store(w, limit, Inputs) ==
    /\ wr[w].pc = "idle"
    /\ WritesEntered < limit
    /\ \E in \in Inputs :
         LET p == kstrtoint(in.buf)
             t == Entered(wr[w], "threshold_mC", in)
         IN  IF p.ret # "OK"
             THEN /\ wr' = [wr EXCEPT ![w] = Stored(t, p.ret)]
                  /\ UNCHANGED threshold_mC
             ELSE IF \/ p.val < SIMTEMP_THRESHOLD_MC_MIN
                     \/ p.val > SIMTEMP_THRESHOLD_MC_MAX
             THEN /\ wr' = [wr EXCEPT ![w] = Stored(t, "EINVAL")]
                  /\ UNCHANGED threshold_mC
             ELSE /\ config_lock = 0
                  /\ threshold_mC' = p.val
                  /\ wr' = [wr EXCEPT ![w] = Stored(t, "OK")]
    /\ UNCHANGED <<ringbuf, stats, producerVars, consumerVars, sampling_ms,
                   sampling_period, mode, config_lock, taken, h, rm, probe, fake_temp,
                   rb_lock>>

\* faulty variant of mode_store: a successful store restarts the generator
ModeStoreResetsGenerator(w, limit, Inputs) ==
    /\ wr[w].pc = "idle"
    /\ WritesEntered < limit
    /\ \E in \in Inputs :
         LET t == Entered(wr[w], "mode", in)
         IN  IF /\ ~sysfs_streq(in.buf, NameNormal)
                /\ ~sysfs_streq(in.buf, NameNoisy)
                /\ ~sysfs_streq(in.buf, NameRamp)
             THEN /\ wr' = [wr EXCEPT ![w] = Stored(t, "EINVAL")]
                  /\ UNCHANGED <<mode, current_temp_mC, ramp_direction>>
             ELSE /\ config_lock = 0
                  /\ mode' = (IF sysfs_streq(in.buf, NameNormal)
                              THEN SIMTEMP_MODE_NORMAL
                              ELSE IF sysfs_streq(in.buf, NameNoisy)
                              THEN SIMTEMP_MODE_NOISY
                              ELSE SIMTEMP_MODE_RAMP)
                  /\ current_temp_mC' = InitialTempMC
                  /\ ramp_direction' = TRUE
                  /\ wr' = [wr EXCEPT ![w] = Stored(t, "OK")]
    /\ UNCHANGED <<ringbuf, stats, threshold_crossed, timer, now, rnd, cb,
                   history, consumerVars, sampling_ms,
                   sampling_period, threshold_mC, config_lock, taken, h, rm, probe, fake_temp,
                   rb_lock>>

\* mode_store(): parse the mode name, then mutex_lock; dev->mode = new_mode;
\* mutex_unlock
mode_store(w, limit, Inputs) ==
    /\ wr[w].pc = "idle"
    /\ WritesEntered < limit
    /\ \E in \in Inputs :
         LET t == Entered(wr[w], "mode", in)
         IN  IF /\ ~sysfs_streq(in.buf, NameNormal)
                /\ ~sysfs_streq(in.buf, NameNoisy)
                /\ ~sysfs_streq(in.buf, NameRamp)
             THEN /\ wr' = [wr EXCEPT ![w] = Stored(t, "EINVAL")]
                  /\ UNCHANGED mode
             ELSE /\ config_lock = 0
                  /\ mode' = (IF sysfs_streq(in.buf, NameNormal)
                              THEN SIMTEMP_MODE_NORMAL
                              ELSE IF sysfs_streq(in.buf, NameNoisy)
                              THEN SIMTEMP_MODE_NOISY
                              ELSE SIMTEMP_MODE_RAMP)
                  /\ wr' = [wr EXCEPT ![w] = Stored(t, "OK")]
    /\ UNCHANGED <<ringbuf, stats, producerVars, consumerVars, sampling_ms,
                   sampling_period, threshold_mC, config_lock, taken, h, rm, probe, fake_temp,
                   rb_lock>>

\* faulty variant of sampling_ms_store: the ring-buffer lock is taken first
\* and config_lock inside it
SamplingStoreSpinFirst(w, limit, Inputs) ==
    /\ \/ /\ wr[w].pc = "idle"
          /\ WritesEntered < limit
          /\ rb_lock = 0
          /\ rb_lock' = WriterCtx(w)
          /\ \E in \in Inputs :
               wr' = [wr EXCEPT ![w] =
                        [Entered(wr[w], "sampling_ms", in) EXCEPT !.pc = "spin"]]
          /\ UNCHANGED <<sampling_ms, sampling_period, config_lock>>
       \/ /\ wr[w].pc = "spin"
          /\ config_lock = 0
          /\ config_lock' = w
          /\ sampling_ms' = kstrtouint(wr[w].buf).val
          /\ sampling_period' = ms_to_ktime(kstrtouint(wr[w].buf).val)
          /\ rb_lock' = 0
          /\ wr' = [wr EXCEPT ![w] = [@ EXCEPT !.pc = "restart"]]
    /\ UNCHANGED <<ringbuf, stats, producerVars, consumerVars, threshold_mC,
                   mode, taken, h, rm, probe, fake_temp>>

\* sampling_ms_store(), first part: parse, validate the range, mutex_lock,
\* update sampling_ms and sampling_period
sampling_ms_store(w, limit, Inputs) ==
    /\ wr[w].pc = "idle"
    /\ WritesEntered < limit
    /\ \E in \in Inputs :
         LET p == kstrtouint(in.buf)
             t == Entered(wr[w], "sampling_ms", in)
         IN  IF p.ret # "OK"
             THEN /\ wr' = [wr EXCEPT ![w] = Stored(t, p.ret)]
                  /\ UNCHANGED <<sampling_ms, sampling_period, config_lock>>
             ELSE IF \/ p.val < SIMTEMP_SAMPLING_MS_MIN
                     \/ p.val > SIMTEMP_SAMPLING_MS_MAX
             THEN /\ wr' = [wr EXCEPT ![w] = Stored(t, "EINVAL")]
                  /\ UNCHANGED <<sampling_ms, sampling_period, config_lock>>
             ELSE /\ config_lock = 0
                  /\ config_lock' = w
                  /\ sampling_ms' = p.val
                  /\ sampling_period' = ms_to_ktime(p.val)
                  /\ wr' = [wr EXCEPT ![w] = [t EXCEPT !.pc = "restart"]]
    /\ UNCHANGED <<ringbuf, stats, producerVars, consumerVars, threshold_mC,
                   mode, taken, h, rm, probe, fake_temp,
                   rb_lock>>

\* the instants at which the restart can happen: the clock has not reached
\* the pending expiry
RestartTimes == {now, (now + timer.expires) \div 2}

\* faulty variants of SamplingRestart: the timer is cancelled and not started
\* again; the timer is started with the default period
SamplingRestartNoStart(w) ==
    /\ wr[w].pc = "restart"
    /\ cb.pc = "idle"
    /\ \E t \in RestartTimes :
         /\ now' = t
         /\ timer' = [enqueued |-> FALSE, expires |-> timer.expires]
    /\ config_lock' = 0
    /\ wr' = [wr EXCEPT ![w] = Stored(@, "OK")]
    /\ UNCHANGED <<ringbuf, stats, threshold_crossed, current_temp_mC,
                   ramp_direction, rnd, cb, history, consumerVars, sampling_ms,
                   sampling_period, threshold_mC, mode, taken, h, rm, probe, fake_temp,
                   rb_lock>>

SamplingRestartOldPeriod(w) ==
    /\ wr[w].pc = "restart"
    /\ cb.pc = "idle"
    /\ \E t \in RestartTimes :
         /\ now' = t
         /\ timer' = [enqueued |-> TRUE,
                      expires |-> t + ms_to_ktime(DEFAULT_SAMPLING_MS)]
    /\ config_lock' = 0
    /\ wr' = [wr EXCEPT ![w] = Stored(@, "OK")]
    /\ UNCHANGED <<ringbuf, stats, threshold_crossed, current_temp_mC,
                   ramp_direction, rnd, cb, history, consumerVars, sampling_ms,
                   sampling_period, threshold_mC, mode, taken, h, rm, probe, fake_temp,
                   rb_lock>>

\* sampling_ms_store(), second part: hrtimer_cancel() waits for a running
\* callback and dequeues the timer; hrtimer_start() arms it one period from
\* the current time; mutex_unlock
SamplingRestart(w) ==
    /\ wr[w].pc = "restart"
    /\ cb.pc = "idle"
    /\ \E t \in RestartTimes :
         /\ now' = t
         /\ timer' = [enqueued |-> TRUE, expires |-> t + sampling_period]
    /\ config_lock' = 0
    /\ wr' = [wr EXCEPT ![w] = Stored(@, "OK")]
    /\ UNCHANGED <<ringbuf, stats, threshold_crossed, current_temp_mC,
                   ramp_direction, rnd, cb, history, consumerVars, sampling_ms,
                   sampling_period, threshold_mC, mode, taken, h, rm, probe, fake_temp,
                   rb_lock>>

(***************************************************************************)
(* Shutdown: simtemp_remove                                                *)
(***************************************************************************)
\* hrtimer_cancel(&dev->timer): waits for a running callback to return, then
\* dequeues the timer
RemoveCancel ==
    /\ rm.pc = "idle"
    /\ cb.pc = "idle"
    /\ timer' = [timer EXCEPT !.enqueued = FALSE]
    /\ rm' = [rm EXCEPT !.pc = "wake"]
    /\ UNCHANGED <<ringbuf, stats, threshold_crossed, configVars,
                   current_temp_mC, ramp_direction, now, rnd, cb, history,
                   consumerVars, taken, h, rb_lock, probe, fake_temp>>

\* wake_up_interruptible(&dev->wait_queue)
RemoveWake ==
    /\ rm.pc = "wake"
    /\ wake_up_interruptible
    /\ rm' = [rm EXCEPT !.pc = "sysfs"]
    /\ UNCHANGED <<ringbuf, stats, producerVars, configVars, delivered, taken,
                   h, rb_lock, probe, fake_temp>>

\* sysfs_remove_group(): waits until no store of the group is running; from
\* then on the attributes are gone
RemoveSysfs ==
    /\ rm.pc = "sysfs"
    /\ \A w \in Writers : wr[w].pc = "idle"
    /\ rm' = [rm EXCEPT !.pc = "misc"]
    /\ UNCHANGED <<ringbuf, stats, producerVars, configVars, consumerVars,
                   taken, h, rb_lock, probe, fake_temp>>

\* misc_deregister(); the final statistics are logged; g_simtemp_dev = NULL;
\* simtemp_remove returns
RemoveMisc ==
    /\ rm.pc = "misc"
    /\ rm' = [rm EXCEPT !.pc = "done"]
    /\ UNCHANGED <<ringbuf, stats, producerVars, configVars, consumerVars,
                   taken, h, rb_lock, probe, fake_temp>>

\* the sysfs attributes exist: a store can be entered
SysfsPresent == rm.pc \in {"idle", "wake", "sysfs"}

\* a write of the number val as its decimal text, and of a mode by its name
NumberInput(val) ==
    [val |-> val, num |-> TRUE,
     buf |-> IF val < 0 THEN <<"-">> \o Decimal(0 - val) ELSE Decimal(val)]

NameInput(val, name) == [val |-> val, num |-> TRUE, buf |-> name]

\* a write of a text that is no number and no mode name
JunkInput(buf) == [val |-> 0, num |-> FALSE, buf |-> buf]

\* the values the writers of the model store
ThresholdInputs == {NumberInput(44000)}

ModeInputs == {NameInput(SIMTEMP_MODE_RAMP, NameRamp)}

SamplingInputs == {NumberInput(50)}

(***************************************************************************)
(* Ring-buffer harness: puts followed by gets on dev->ringbuf              *)
(***************************************************************************)
\* the i-th sample the harness puts, for the seed drawn in Init
HarnessSample(seed, i) ==
    [timestamp_ns |-> seed + 1000 * i,
     temp_mC |-> ((seed + 7919 * i) % 165001) - 40000,
     flags |-> IF i % 3 = 0
               THEN BitOr(SIMTEMP_FLAG_NEW_SAMPLE, SIMTEMP_FLAG_THRESHOLD_CROSSED)
               ELSE SIMTEMP_FLAG_NEW_SAMPLE]

\* a put at any time, up to limit puts
HarnessPut(limit) ==
    /\ Len(h.puts) < limit
    /\ LET sample == HarnessSample(rnd, Len(h.puts) + 1)
           r == simtemp_ringbuf_put(ringbuf, sample)
       IN  /\ ringbuf' = r.rb
           /\ h' = [h EXCEPT !.puts = Append(@, sample),
                             !.rets = Append(@, r.ret),
                             !.mixed = @ \/ h.gets # <<>> \/ h.last # "NONE"]
    /\ UNCHANGED <<stats, producerVars, configVars, consumerVars, taken, rm, probe, fake_temp,
                   rb_lock>>

\* a get at any time after the first put
HarnessGet ==
    /\ h.puts # <<>>
    /\ LET r == simtemp_ringbuf_get(ringbuf)
       IN  /\ ringbuf' = r.rb
           /\ h' = [h EXCEPT !.gets = IF r.ret = "OK" THEN Append(@, r.sample)
                                      ELSE @,
                             !.last = r.ret]
    /\ UNCHANGED <<stats, producerVars, configVars, consumerVars, taken, rm, probe, fake_temp,
                   rb_lock>>

(***************************************************************************)
(* Specifications                                                          *)
(***************************************************************************)
\* the pipeline: the producer and NumConsumers readers, with signals
Next ==
    \/ TimerFire(MaxTicks)
    \/ CbPut
    \/ CbWake
    \/ \E c \in Consumers : ReadEnter(c, MaxCalls, ReadArgs)
    \/ \E c \in Consumers : WaitPrepare(c)
    \/ \E c \in Consumers : WaitCheck(c)
    \/ \E c \in Consumers : WaitSchedule(c)
    \/ \E c \in Consumers : Signal(c)
    \/ \E c \in Consumers : BlGet(c)
    \/ \E c \in Consumers : RcLoad(c)
    \/ \E c \in Consumers : RcStore(c, BOOLEAN)

Spec == Init /\ [][Next]_vars

\* the pipeline with configuration writes: the producer, consumers issuing
\* non-blocking reads, and one writer of the three attributes
NextCfg ==
    \/ TimerFire(MaxTicks)
    \/ CbPut
    \/ CbWake
    \/ \E c \in Consumers : ReadEnter(c, MaxCalls, NonBlockingArgs)
    \/ \E c \in Consumers : RcLoad(c)
    \/ \E c \in Consumers : RcStore(c, {TRUE})
    \/ threshold_mC_store(1, MaxWrites, ThresholdInputs)
    \/ mode_store(1, MaxWrites, ModeInputs)
    \/ sampling_ms_store(1, MaxWrites, SamplingInputs)
    \/ SamplingRestart(1)

SpecCfg == Init /\ [][NextCfg]_vars

\* the producer in a mode chosen by one writer, the random words of its
\* ticks chosen among SeqWords (in noisy mode they give the temperatures
\* 40000, 44000, 46000 and 47000)
SeqWords == {10000, 14000, 16000, 17000}

NextSeq ==
    \/ mode_store(1, MaxWrites, {NameInput(SIMTEMP_MODE_NOISY, NameNoisy)})
    \/ TimerFireWords(MaxSeqTicks, SeqWords)
    \/ CbPut
    \/ CbWake

SpecSeq == Init /\ [][NextSeq]_vars

\* the producer and one writer of threshold_mC
ThrInputs == {NumberInput(44000), NumberInput(45000), NumberInput(46500)}

NextThr ==
    \/ threshold_mC_store(1, MaxWrites, ThrInputs)
    \/ TimerFire(MaxThrTicks)
    \/ CbPut
    \/ CbWake

SpecThr == Init /\ [][NextThr]_vars

\* the producer in ramp mode from its first tick: one writer stores "ramp"
\* and no tick fires before it has
NextRamp ==
    \/ mode_store(1, MaxWrites, {NameInput(SIMTEMP_MODE_RAMP, NameRamp)})
    \/ (mode = SIMTEMP_MODE_RAMP /\ TimerFire(MaxRampTicks))
    \/ CbPut
    \/ CbWake

SpecRamp == Init /\ [][NextRamp]_vars

\* the generator applied to every mode value, valid or not, to the random
\* words at the ends of every residue range and beyond them, and to the
\* generator states at the start and at both turning points of the ramp
GenModes == {SIMTEMP_MODE_NORMAL, SIMTEMP_MODE_NOISY, SIMTEMP_MODE_RAMP, 3}

GenWords == {0, 3999, 4000, 29999, 30000, 2147483647}

GenStates == {[current_temp_mC |-> InitialTempMC, ramp_direction |-> TRUE],
              [current_temp_mC |-> 69500, ramp_direction |-> TRUE],
              [current_temp_mC |-> 70000, ramp_direction |-> FALSE],
              [current_temp_mC |-> 30500, ramp_direction |-> FALSE],
              [current_temp_mC |-> 30000, ramp_direction |-> TRUE]}

InitGen ==
    /\ ringbuf = simtemp_ringbuf_init
    /\ stats = [total_samples |-> 0, threshold_alerts |-> 0,
                read_count |-> 0, poll_count |-> 0]
    /\ threshold_crossed = FALSE
    /\ sampling_ms = DEFAULT_SAMPLING_MS
    /\ sampling_period = ms_to_ktime(DEFAULT_SAMPLING_MS)
    /\ threshold_mC = DEFAULT_THRESHOLD_MC
    /\ mode \in GenModes
    /\ \E g \in GenStates :
         /\ current_temp_mC = g.current_temp_mC
         /\ ramp_direction = g.ramp_direction
    /\ timer = [enqueued |-> TRUE, expires |-> ms_to_ktime(DEFAULT_SAMPLING_MS)]
    /\ now = 0
    /\ rnd = RandomSeed(1)
    /\ cb = IdleCb
    /\ task = [c \in Consumers |-> IdleTask]
    /\ wait_queue = {}
    /\ history = <<>>
    /\ delivered = [c \in Consumers |-> <<>>]
    /\ taken = <<>>
    /\ config_lock = 0
    /\ wr = [w \in Writers |-> IdleWriter]
    /\ h = IdleHarness
    /\ rm = IdleRemove
    /\ rb_lock = 0
    /\ probe = ProbeDone
    /\ fake_temp = IdleSlot

NextGen ==
    \/ TimerFireWords(MaxGenTicks, GenWords)
    \/ CbPut
    \/ CbWake

SpecGen == InitGen /\ [][NextGen]_vars

\* the producer and one writer storing values at and beyond both ends of
\* every range, names that are and are not modes, and texts that are no
\* number
ValSamplingInputs ==
    {NumberInput(v) : v \in {-1, 0, 1, 20, 10000, 10001}}
    \cup {JunkInput(<<"5", "x">>)}

ValThresholdInputs ==
    {NumberInput(v) : v \in {-40001, -40000, 44000, 125000, 125001, 200000}}
    \cup {JunkInput(<<>>)}

ValModeInputs ==
    {NameInput(SIMTEMP_MODE_NORMAL, NameNormal),
     NameInput(SIMTEMP_MODE_NOISY, NameNoisy),
     NameInput(SIMTEMP_MODE_RAMP, NameRamp),
     NameInput(SIMTEMP_MODE_RAMP, Append(NameRamp, "\n")),
     JunkInput(<<"f", "a", "s", "t">>),
     JunkInput(<<"R", "A", "M", "P">>)}

NextVal ==
    \/ threshold_mC_store(1, MaxWrites, ValThresholdInputs)
    \/ mode_store(1, MaxWrites, ValModeInputs)
    \/ sampling_ms_store(1, MaxWrites, ValSamplingInputs)
    \/ SamplingRestart(1)
    \/ TimerFire(MaxTicks)
    \/ CbPut
    \/ CbWake

SpecVal == Init /\ [][NextVal]_vars

\* a u32 Device Tree cell, kept as its two 16-bit halves (its value can be
\* 2^31 or more); the cell of a number n >= 0, and of its two's complement
U32(n) == [present |-> TRUE, hi |-> n \div 65536, lo |-> n % 65536]

U32Neg(n) == [present |-> TRUE,
              hi |-> 65535 - ((n - 1) \div 65536),
              lo |-> 65535 - ((n - 1) % 65536)]

\* a property the node does not have: of_property_read_u32() fails
Absent == [present |-> FALSE, hi |-> 0, lo |-> 0]

\* a <= b on u32 values
U32Le(a, b) == a.hi < b.hi \/ (a.hi = b.hi /\ a.lo <= b.lo)

\* the cast (s32)val
S32(val) ==
    IF val.hi >= 32768 THEN (val.hi - 65536) * 65536 + val.lo
    ELSE val.hi * 65536 + val.lo

\* simtemp_probe(), the configuration it takes from the Device Tree node np:
\* sampling-ms if it is in range, threshold-mC as it is
simtemp_probe(np) ==
    [sampling_ms |->
        IF /\ np.sampling_ms.present
           /\ U32Le(U32(SIMTEMP_SAMPLING_MS_MIN), np.sampling_ms)
           /\ U32Le(np.sampling_ms, U32(SIMTEMP_SAMPLING_MS_MAX))
        THEN S32(np.sampling_ms)
        ELSE DEFAULT_SAMPLING_MS,
     threshold_mC |->
        IF np.threshold_mC.present THEN S32(np.threshold_mC)
        ELSE DEFAULT_THRESHOLD_MC]

\* the Device Tree nodes of the model: each property absent, at and beyond
\* the ends of its range, and with the top bit set
DTNodes ==
    [sampling_ms : {Absent, U32(0), U32(1), U32(50), U32(10000), U32(10001),
                    U32Neg(1)},
     threshold_mC : {Absent, U32(0), U32(30000), U32(125000), U32(125001),
                     U32Neg(5000), U32Neg(40000), U32Neg(40001)}]

\* simtemp_probe() on a node of DTNodes, up to hrtimer_start()
InitProbe ==
    /\ ringbuf = simtemp_ringbuf_init
    /\ stats = [total_samples |-> 0, threshold_alerts |-> 0,
                read_count |-> 0, poll_count |-> 0]
    /\ threshold_crossed = FALSE
    /\ \E np \in DTNodes :
         LET dev == simtemp_probe(np)
         IN  /\ sampling_ms = dev.sampling_ms
             /\ sampling_period = ms_to_ktime(dev.sampling_ms)
             /\ threshold_mC = dev.threshold_mC
             /\ timer = [enqueued |-> TRUE,
                         expires |-> ms_to_ktime(dev.sampling_ms)]
    /\ mode = DEFAULT_MODE
    /\ current_temp_mC = InitialTempMC
    /\ ramp_direction = TRUE
    /\ now = 0
    /\ rnd = RandomSeed(1)
    /\ cb = IdleCb
    /\ task = [c \in Consumers |-> IdleTask]
    /\ wait_queue = {}
    /\ history = <<>>
    /\ delivered = [c \in Consumers |-> <<>>]
    /\ taken = <<>>
    /\ config_lock = 0
    /\ wr = [w \in Writers |-> IdleWriter]
    /\ h = IdleHarness
    /\ rm = IdleRemove
    /\ rb_lock = 0
    /\ probe = ProbeDone
    /\ fake_temp = IdleSlot

\* the device probed from a Device Tree node, then the producer and one
\* writer as in SpecVal
SpecProbe == InitProbe /\ [][NextVal]_vars

\* simtemp_probe() step by step.  After devm_kzalloc() every field of the
\* device is zero and nothing is registered
AllocTask == [pc |-> "config", ret |-> "NONE", misc |-> FALSE, sysfs |-> FALSE]

InitAlloc ==
    /\ ringbuf = [buffer |-> [i \in 0..RING_BUFFER_MASK |-> ZeroSample],
                  head |-> 0, tail |-> 0]
    /\ stats = [total_samples |-> 0, threshold_alerts |-> 0,
                read_count |-> 0, poll_count |-> 0]
    /\ threshold_crossed = FALSE
    /\ sampling_ms = 0
    /\ sampling_period = 0
    /\ threshold_mC = 0
    /\ mode = 0
    /\ current_temp_mC = 0
    /\ ramp_direction = FALSE
    /\ timer = [enqueued |-> FALSE, expires |-> 0]
    /\ now = 0
    /\ rnd \in {RandomSeed(k) : k \in 1..NumSeeds}
    /\ cb = IdleCb
    /\ task = [c \in Consumers |-> IdleTask]
    /\ wait_queue = {}
    /\ history = <<>>
    /\ delivered = [c \in Consumers |-> <<>>]
    /\ taken = <<>>
    /\ config_lock = 0
    /\ wr = [w \in Writers |-> IdleWriter]
    /\ h = IdleHarness
    /\ rm = IdleRemove
    /\ rb_lock = 0
    /\ probe = AllocTask
    /\ fake_temp = IdleSlot

\* faulty variant of ProbeConfig: dev->current_temp_mC and
\* dev->ramp_direction are left as devm_kzalloc() made them
ProbeConfigNoGenerator ==
    /\ probe.pc = "config"
    /\ sampling_ms' = DEFAULT_SAMPLING_MS
    /\ threshold_mC' = DEFAULT_THRESHOLD_MC
    /\ mode' = DEFAULT_MODE
    /\ ringbuf' = simtemp_ringbuf_init
    /\ sampling_period' = ms_to_ktime(DEFAULT_SAMPLING_MS)
    /\ probe' = [probe EXCEPT !.pc = "misc_register"]
    /\ UNCHANGED <<stats, threshold_crossed, current_temp_mC, ramp_direction,
                   timer, now, rnd, cb, history, consumerVars, taken,
                   config_lock, wr, h, rm, rb_lock, fake_temp>>

\* the defaults (no Device Tree node), mutex_init, init_waitqueue_head,
\* simtemp_ringbuf_init, hrtimer_init, dev->sampling_period
ProbeConfig ==
    /\ probe.pc = "config"
    /\ sampling_ms' = DEFAULT_SAMPLING_MS
    /\ threshold_mC' = DEFAULT_THRESHOLD_MC
    /\ mode' = DEFAULT_MODE
    /\ current_temp_mC' = InitialTempMC
    /\ ramp_direction' = TRUE
    /\ ringbuf' = simtemp_ringbuf_init
    /\ sampling_period' = ms_to_ktime(DEFAULT_SAMPLING_MS)
    /\ probe' = [probe EXCEPT !.pc = "misc_register"]
    /\ UNCHANGED <<stats, threshold_crossed, timer, now, rnd, cb, history,
                   consumerVars, taken, config_lock, wr, h, rm, rb_lock, fake_temp>>

\* ret = misc_register(&dev->miscdev); if (ret) return ret
ProbeMisc ==
    /\ probe.pc = "misc_register"
    /\ \E ok \in BOOLEAN :
         probe' = IF ok
                  THEN [probe EXCEPT !.pc = "sysfs_create_group",
                                     !.misc = TRUE]
                  ELSE [probe EXCEPT !.pc = "failed", !.ret = "ERR"]
    /\ UNCHANGED <<ringbuf, stats, producerVars, configVars, consumerVars,
                   taken, h, rm, rb_lock, fake_temp>>

\* faulty variant of ProbeSysfs: the error path returns without
\* misc_deregister()
ProbeSysfsLeavesMisc ==
    /\ probe.pc = "sysfs_create_group"
    /\ \E ok \in BOOLEAN :
         probe' = IF ok
                  THEN [probe EXCEPT !.pc = "hrtimer_start", !.sysfs = TRUE]
                  ELSE [probe EXCEPT !.pc = "failed", !.ret = "ERR"]
    /\ UNCHANGED <<ringbuf, stats, producerVars, configVars, consumerVars,
                   taken, h, rm, rb_lock, fake_temp>>

\* ret = sysfs_create_group(); if (ret) { misc_deregister(); return ret; }
ProbeSysfs ==
    /\ probe.pc = "sysfs_create_group"
    /\ \E ok \in BOOLEAN :
         probe' = IF ok
                  THEN [probe EXCEPT !.pc = "hrtimer_start", !.sysfs = TRUE]
                  ELSE [probe EXCEPT !.pc = "failed", !.ret = "ERR",
                                     !.misc = FALSE]
    /\ UNCHANGED <<ringbuf, stats, producerVars, configVars, consumerVars,
                   taken, h, rm, rb_lock, fake_temp>>

\* hrtimer_start(&dev->timer, dev->sampling_period, HRTIMER_MODE_REL);
\* return 0
ProbeStart ==
    /\ probe.pc = "hrtimer_start"
    /\ timer' = [enqueued |-> TRUE, expires |-> now + sampling_period]
    /\ probe' = [probe EXCEPT !.pc = "done", !.ret = "OK"]
    /\ UNCHANGED <<ringbuf, stats, threshold_crossed, configVars,
                   current_temp_mC, ramp_direction, now, rnd, cb, history,
                   consumerVars, taken, h, rm, rb_lock, fake_temp>>

\* initialisation: simtemp_probe, the producer, a consumer that can read
\* without blocking as soon as the misc device is registered, and a writer
\* that can store the period as soon as the attribute group exists
NextInit ==
    \/ ProbeConfig
    \/ ProbeMisc
    \/ ProbeSysfs
    \/ ProbeStart
    \/ TimerFire(MaxInitTicks)
    \/ CbPut
    \/ CbWake
    \/ probe.misc /\ ReadEnter(1, MaxInitCalls, NonBlockingArgs)
    \/ RcLoad(1)
    \/ RcStore(1, {TRUE})
    \/ probe.sysfs /\ sampling_ms_store(1, MaxInitWrites, SamplingInputs)
    \/ SamplingRestart(1)

SpecInit == InitAlloc /\ [][NextInit]_vars

\* the producer and several writers of sampling_ms racing each other and the
\* callback
RaceInputs == {NumberInput(20), NumberInput(50)}

NextRace ==
    \/ \E w \in Writers : sampling_ms_store(w, MaxRaceWrites, RaceInputs)
    \/ \E w \in Writers : SamplingRestart(w)
    \/ TimerFire(MaxTicks)
    \/ CbPut
    \/ CbWake

SpecRace == Init /\ [][NextRace]_vars

\* shutdown with consumers in blocking reads: the producer, the readers
\* (read() is entered before the removal starts) and simtemp_remove.  The
\* hrtimer core runs an armed timer's callback to completion, the scheduler
\* runs every runnable task, and simtemp_remove once called runs to its end
ProducerShut ==
    \/ TimerFire(MaxShutTicks)
    \/ CbPut
    \/ CbWake

ReaderShut(c) ==
    \/ WaitPrepare(c)
    \/ WaitCheck(c)
    \/ WaitSchedule(c)
    \/ BlGet(c)
    \/ RcLoad(c)
    \/ RcStore(c, {TRUE})

RemoveShut ==
    \/ RemoveWake
    \/ RemoveSysfs
    \/ RemoveMisc

NextShut ==
    \/ ProducerShut
    \/ \E c \in Consumers :
         rm.pc = "idle" /\ ReadEnter(c, MaxShutCalls, BlockingArgs)
    \/ \E c \in Consumers : ReaderShut(c)
    \/ RemoveCancel
    \/ RemoveShut

SpecShut ==
    /\ Init
    /\ [][NextShut]_vars
    /\ WF_vars(ProducerShut)
    /\ \A c \in Consumers : WF_vars(ReaderShut(c))
    /\ WF_vars(RemoveShut)

\* shutdown with a period write in flight: the producer, simtemp_remove and
\* the writers of sampling_ms, which can enter a store as long as the sysfs
\* group exists
NextStop ==
    \/ TimerFire(MaxShutTicks)
    \/ CbPut
    \/ CbWake
    \/ \E w \in Writers :
         SysfsPresent /\ sampling_ms_store(w, MaxShutWrites, RaceInputs)
    \/ \E w \in Writers : SamplingRestart(w)
    \/ RemoveCancel
    \/ RemoveWake
    \/ RemoveSysfs
    \/ RemoveMisc

SpecStop == Init /\ [][NextStop]_vars

\* the producer, two consumers that poll, and non-blocking reads by the
\* first of them
Pollers == {1, 2}

NextPoll ==
    \/ TimerFire(MaxPollTicks)
    \/ CbPut
    \/ CbWake
    \/ \E c \in Pollers : PollEnter(c, MaxPolls)
    \/ \E c \in Pollers : PollCount(c)
    \/ \E c \in Pollers : PollData(c)
    \/ \E c \in Pollers : PollPri(c)
    \/ ReadEnter(1, MaxPollCalls, NonBlockingArgs)
    \/ RcLoad(1)
    \/ RcStore(1, {TRUE})

SpecPoll == Init /\ [][NextPoll]_vars

\* the two locks: the producer, a consumer that reads, one that polls, and a writer
\* of the three attributes, with spin_lock_irqsave() as a step of its own so
\* that the lock is seen held.  The hrtimer core runs the callback to its
\* end, a context holding the spinlock runs with interrupts off until it
\* releases it, and a writer inside hrtimer_cancel() goes on once the
\* callback has returned; nothing is assumed of the consumers outside the
\* spinlock
CallbackLock ==
    \/ CbLock
    \/ CbPut
    \/ CbWake

HolderLock ==
    \E c \in Pollers : rb_lock = c /\ (BlGet(c) \/ PollData(c))

RestartLock == SamplingRestart(1)

NextLock ==
    \/ TimerFire(MaxLockTicks)
    \/ CallbackLock
    \/ ReadEnter(1, MaxLockCalls, ReadArgs)
    \/ WaitPrepare(1)
    \/ WaitCheck(1)
    \/ WaitSchedule(1)
    \/ \E c \in Pollers : ConsumerLock(c)
    \/ BlGet(1)
    \/ RcLoad(1)
    \/ RcStore(1, {TRUE})
    \/ PollEnter(2, MaxLockPolls)
    \/ PollCount(2)
    \/ PollData(2)
    \/ PollPri(2)
    \/ threshold_mC_store(1, MaxLockWrites, ThresholdInputs)
    \/ mode_store(1, MaxLockWrites, ModeInputs)
    \/ sampling_ms_store(1, MaxLockWrites, SamplingInputs)
    \/ RestartLock

SpecLock ==
    /\ Init
    /\ [][NextLock]_vars
    /\ WF_vars(CallbackLock)
    /\ WF_vars(HolderLock)
    /\ WF_vars(RestartLock)

\* a tick against a period write and one reader: the producer, the blocking
\* and non-blocking reads of consumer 1 and the period writes of writer 1,
\* under the same scheduling as SpecLock
NextCancel ==
    \/ TimerFire(MaxCancelTicks)
    \/ CallbackLock
    \/ ReadEnter(1, MaxCancelCalls, ReadArgs)
    \/ WaitPrepare(1)
    \/ WaitCheck(1)
    \/ WaitSchedule(1)
    \/ ConsumerLock(1)
    \/ BlGet(1)
    \/ RcLoad(1)
    \/ RcStore(1, {TRUE})
    \/ sampling_ms_store(1, MaxCancelWrites, SamplingInputs)
    \/ RestartLock

SpecCancel ==
    /\ Init
    /\ [][NextCancel]_vars
    /\ WF_vars(CallbackLock)
    /\ WF_vars(HolderLock)
    /\ WF_vars(RestartLock)

\* the counters: the producer, two consumers that poll at the same time and
\* read without blocking
NextCount ==
    \/ TimerFire(MaxCountTicks)
    \/ CbPut
    \/ CbWake
    \/ \E c \in Pollers : PollEnter(c, MaxCountPolls)
    \/ \E c \in Pollers : PollCount(c)
    \/ \E c \in Pollers : PollData(c)
    \/ \E c \in Pollers : PollPri(c)
    \/ \E c \in Pollers : ReadEnter(c, MaxCountCalls, NonBlockingArgs)
    \/ \E c \in Pollers : RcLoad(c)
    \/ \E c \in Pollers : RcStore(c, {TRUE})

SpecCount == Init /\ [][NextCount]_vars

\* mode switches between ticks: the producer, a writer that changes the
\* mode to and from ramp after at most MaxModeCfgWrites stores to the
\* threshold or the period, and a consumer that reads without blocking and
\* polls; the device starts in normal mode and is switched between noisy and
\* ramp; the random stream starts from the first seed
InitMode == Init /\ rnd = RandomSeed(1)

ModeSwitchInputs == {NameInput(SIMTEMP_MODE_NOISY, NameNoisy),
                     NameInput(SIMTEMP_MODE_RAMP, NameRamp)}

NextMode ==
    \/ TimerFire(MaxModeTicks)
    \/ CbPut
    \/ CbWake
    \/ mode_store(1, MaxModeWrites, ModeSwitchInputs)
    \/ threshold_mC_store(1, MaxModeCfgWrites, ThresholdInputs)
    \/ sampling_ms_store(1, MaxModeCfgWrites, SamplingInputs)
    \/ SamplingRestart(1)
    \/ ReadEnter(1, MaxModeCalls, NonBlockingArgs)
    \/ RcLoad(1)
    \/ RcStore(1, {TRUE})
    \/ PollEnter(1, MaxModePolls)
    \/ PollCount(1)
    \/ PollData(1)
    \/ PollPri(1)

SpecMode == InitMode /\ [][NextMode]_vars

(***************************************************************************)
(* The single-slot variant (device fake_temp)                              *)
(***************************************************************************)
\* everything but the single-slot variant
simtempVars == <<ringbuf, stats, producerVars, configVars, consumerVars,
                 taken, h, rm, rb_lock, probe>>

POLLIN == EPOLLIN
POLLRDNORM == EPOLLRDNORM

\* simulate_temperature(): 20 + (rand % 26)
simulate_temperature(rand) == 20 + (rand % 26)

\* the text snprintf() leaves in temp_buffer: the temperature and the time
\* of the update, for which the model takes the number of the update
FormatTemp(temp, stamp) ==
    <<"T", "e", "m", "p", ":", " ">> \o Decimal(temp)
    \o <<"C", " ">> \o Decimal(stamp) \o <<"\n">>

\* simple_read_from_buffer(to, count, ppos, from, available): nothing at or
\* past the end or for count 0, else up to count bytes from *ppos, which
\* advances by the bytes copied; -EFAULT when nothing could be copied
simple_read_from_buffer(count, pos, from, bufok) ==
    IF pos >= Len(from) \/ count = 0
    THEN [ret |-> 0, pos |-> pos, out |-> <<>>]
    ELSE LET n == IF count > Len(from) - pos THEN Len(from) - pos ELSE count
         IN  IF bufok
             THEN [ret |-> n, pos |-> pos + n,
                   out |-> SubSeq(from, pos + 1, pos + n)]
             ELSE [ret |-> -14, pos |-> pos, out |-> <<>>]

\* temp_timer_callback(): queue_work(temp_wq, &temp_work); the timer is
\* forwarded and restarts
temp_timer_callback(limit) ==
    /\ fake_temp.ticks < limit
    /\ fake_temp' = [fake_temp EXCEPT !.pending = TRUE, !.ticks = @ + 1]
    /\ UNCHANGED simtempVars

\* temp_work_func(), up to snprintf(): the new temperature and its text
\* overwrite current_temp and temp_buffer
WorkFormat(Words) ==
    /\ fake_temp.pending
    /\ ~fake_temp.running
    /\ \E rand \in Words :
         LET temp == simulate_temperature(rand)
         IN  fake_temp' = [fake_temp EXCEPT
                             !.pending = FALSE,
                             !.running = TRUE,
                             !.current_temp = temp,
                             !.updates = @ + 1,
                             !.temp_buffer =
                                 FormatTemp(temp, fake_temp.updates + 1)]
    /\ UNCHANGED simtempVars

\* temp_work_func(), the rest: temp_ready = 1; wake_up_interruptible()
WorkReady ==
    /\ fake_temp.running
    /\ fake_temp' = [fake_temp EXCEPT !.running = FALSE, !.temp_ready = 1]
    /\ UNCHANGED simtempVars

\* the device is opened again: a new file, at position 0
temp_open(limit) ==
    /\ fake_temp.pc = "idle"
    /\ fake_temp.opens < limit
    /\ fake_temp' = [fake_temp EXCEPT !.f_pos = 0, !.opens = @ + 1]
    /\ UNCHANGED simtempVars

\* the arguments of a read on the single-slot device: count, and whether
\* the user buffer is writable
SlotArgs == [count : {0, 5, 128}, bufok : BOOLEAN]

\* temp_read(): if (!temp_ready) return 0
temp_read(limit, Args) ==
    /\ fake_temp.pc = "idle"
    /\ fake_temp.reads < limit
    /\ \E a \in Args :
         fake_temp' =
             IF fake_temp.temp_ready = 0
             THEN [fake_temp EXCEPT !.count = a.count, !.bufok = a.bufok,
                                    !.ret = 0, !.out = <<>>, !.reads = @ + 1]
             ELSE [fake_temp EXCEPT !.pc = "copy", !.count = a.count,
                                    !.bufok = a.bufok]
    /\ UNCHANGED simtempVars

\* temp_read(), the rest: temp_ready = 0; return
\* simple_read_from_buffer(buf, count, ppos, temp_buffer, strlen(temp_buffer))
ReadCopy ==
    /\ fake_temp.pc = "copy"
    /\ LET r == simple_read_from_buffer(fake_temp.count, fake_temp.f_pos,
                                        fake_temp.temp_buffer, fake_temp.bufok)
       IN  fake_temp' = [fake_temp EXCEPT !.pc = "idle", !.temp_ready = 0,
                                          !.f_pos = r.pos, !.ret = r.ret,
                                          !.out = r.out, !.reads = @ + 1]
    /\ UNCHANGED simtempVars

\* temp_poll(): poll_wait(); return temp_ready ? POLLIN | POLLRDNORM : 0
temp_poll(limit) ==
    /\ fake_temp.polls < limit
    /\ fake_temp' = [fake_temp EXCEPT
                        !.polls = @ + 1,
                        !.mask = IF fake_temp.temp_ready # 0
                                 THEN BitOr(POLLIN, POLLRDNORM) ELSE 0]
    /\ UNCHANGED simtempVars

SlotWords == {0, 25, 26, 40}

NextSlot ==
    \/ temp_timer_callback(MaxSlotTicks)
    \/ WorkFormat(SlotWords)
    \/ WorkReady
    \/ temp_open(MaxSlotOpens)
    \/ temp_read(MaxSlotReads, SlotArgs)
    \/ ReadCopy
    \/ temp_poll(MaxSlotPolls)

SpecSlot == Init /\ [][NextSlot]_vars

\* the harness alone on the ring buffer
NextRing ==
    \/ HarnessPut(MaxRingPuts)
    \/ HarnessGet

SpecRing == Init /\ [][NextRing]_vars

\* a long run of the producer with one slow non-blocking reader
NextFill ==
    \/ TimerFire(MaxFillTicks)
    \/ CbPut
    \/ CbWake
    \/ ReadEnter(1, MaxFillCalls, NonBlockingArgs)
    \/ RcLoad(1)
    \/ RcStore(1, {TRUE})

SpecFill == Init /\ [][NextFill]_vars

\* one blocking reader and the producer, no signals; the hrtimer core runs
\* an armed timer's callback to completion and the scheduler runs a runnable
\* task, so the producer's steps and the reader's steps inside read() are
\* weakly fair (entering read() is the caller's choice and is not)
ProducerLive ==
    \/ TimerFire(MaxLiveTicks)
    \/ CbPut
    \/ CbWake

ReaderLive ==
    \/ WaitPrepare(1)
    \/ WaitCheck(1)
    \/ WaitSchedule(1)
    \/ BlGet(1)
    \/ RcLoad(1)
    \/ RcStore(1, {TRUE})

NextLive ==
    \/ ProducerLive
    \/ ReadEnter(1, MaxLiveCalls, BlockingArgs)
    \/ ReaderLive

SpecLive ==
    /\ Init
    /\ [][NextLive]_vars
    /\ WF_vars(ProducerLive)
    /\ WF_vars(ReaderLive)

(***************************************************************************)
(* Observations used by the properties                                     *)
(***************************************************************************)
\* the puts that succeeded, by the callback and by the harness
EnqueuedCount ==
    Cardinality({i \in 1..Len(history) : history[i].ret = "OK"})
    + Cardinality({i \in 1..Len(h.rets) : h.rets[i] = "OK"})

\* the gets that succeeded, by the reads and by the harness
DequeuedCount == Len(taken) + Len(h.gets)

\* the ticks whose put found the buffer full
DroppedCount == Cardinality({i \in 1..Len(history) : history[i].ret = "ENOSPC"})

\* no read() was ever entered
NoDrain == \A c \in Consumers : task[c].pc = "idle" /\ task[c].calls = 0

RingFull(rb) == BitAnd(rb.head + 1, RING_BUFFER_MASK) = rb.tail

\* the step that starts a tick, and the step that puts its sample
TickStep == cb.pc = "idle" /\ cb'.pc = "put"

PutStep == cb.pc = "put" /\ cb'.pc = "wake"

\* the ticks started so far
TicksFired == Len(history) + (IF cb.pc = "put" THEN 1 ELSE 0)

\* a sample carries the THRESHOLD_CROSSED flag
Flagged(sample) == BitAnd(sample.flags, SIMTEMP_FLAG_THRESHOLD_CROSSED) # 0

\* writer w's store returns in this step; it returns success; it is a store
\* to attr
StoreReturns(w) == wr'[w].writes = wr[w].writes + 1

StoreSucceeds(w) == StoreReturns(w) /\ wr'[w].ret = "OK"

StoreTo(w, attr) == wr'[w].attr = attr

\* the temperatures of the samples built so far, in tick order
HistoryTemps == [i \in 1..Len(history) |-> history[i].sample.temp_mC]

(***************************************************************************)
(* Properties                                                              *)
(***************************************************************************)
\* C1: N <= RING_BUFFER_SIZE - 1 puts into the empty ring buffer followed by
\* gets with no put in between: every put succeeds, none of the first N gets
\* fails, and the i-th get returns the sample of the i-th put, field by field.
C1_FifoRoundTrip ==
    (~h.mixed /\ Len(h.puts) <= RING_BUFFER_SIZE - 1) =>
        /\ \A i \in 1..Len(h.rets) : h.rets[i] = "OK"
        /\ Len(h.gets) <= Len(h.puts)
        /\ \A i \in 1..Len(h.gets) :
             /\ h.gets[i].timestamp_ns = h.puts[i].timestamp_ns
             /\ h.gets[i].temp_mC = h.puts[i].temp_mC
             /\ h.gets[i].flags = h.puts[i].flags
        /\ (h.last = "EAGAIN" => Len(h.gets) = Len(h.puts))

C1_Witness ==
    /\ ~h.mixed
    /\ Len(h.puts) = RING_BUFFER_SIZE - 1
    /\ Len(h.gets) = RING_BUFFER_SIZE - 1

C4_RingInvariant ==
    /\ ringbuf.head \in 0..(RING_BUFFER_SIZE - 1)
    /\ ringbuf.tail \in 0..(RING_BUFFER_SIZE - 1)
    /\ simtemp_ringbuf_count(ringbuf) <= RING_BUFFER_SIZE - 1
    /\ simtemp_ringbuf_count(ringbuf) = EnqueuedCount - DequeuedCount
    /\ simtemp_ringbuf_empty(ringbuf) <=> (EnqueuedCount = DequeuedCount)

C4_Witness ==
    /\ simtemp_ringbuf_count(ringbuf) = RING_BUFFER_SIZE - 1
    /\ ringbuf.head < ringbuf.tail
    /\ h.last = "OK"

\* the reads that have returned to their caller
Finished(c) == task[c].pc = "idle" /\ task[c].calls > 0

\* a consumer inside wait_event_interruptible()
Waiting(c) == task[c].pc \in {"wait_prep", "wait_chk", "wait_sched"}

\* a consumer that schedule() has put to sleep
Asleep(c) ==
    /\ task[c].pc = "wait_sched"
    /\ task[c].state = "INTERRUPTIBLE"
    /\ ~task[c].sigpending

\* the tick that generated a sample
TickOf(sample) == CHOOSE k \in 1..Len(history) : history[k].sample = sample

\* C5: the samples returned by all reads of all consumers are pairwise
\* different samples, and each of them was enqueued by a tick whose put
\* succeeded.
C5_DeliveredAtMostOnce ==
    /\ \A c1, c2 \in Consumers :
         \A i \in 1..Len(delivered[c1]) : \A j \in 1..Len(delivered[c2]) :
           (c1 # c2 \/ i # j) => delivered[c1][i] # delivered[c2][j]
    /\ \A c \in Consumers : \A i \in 1..Len(delivered[c]) :
         \E k \in 1..Len(history) :
           history[k].ret = "OK" /\ history[k].sample = delivered[c][i]

C5_Witness ==
    \E c1, c2 \in Consumers :
      /\ c1 # c2
      /\ Len(delivered[c1]) >= 1 /\ Len(delivered[c2]) >= 1
      /\ Finished(c1) /\ Finished(c2)
      /\ task[c1].nonblock /\ ~task[c2].nonblock

C7_BlockingNeverWouldBlock ==
    \A c \in Consumers :
      ~(/\ Finished(c)
        /\ ~task[c].nonblock
        /\ task[c].ret # "EINVAL"
        /\ task[c].ret = "EAGAIN")

\* C8: a non-blocking read entered on an empty buffer returns -EAGAIN in that
\* same step, with head, tail, the buffer, the latch, the four counters and
\* the wait queue unchanged; and a non-blocking read is never inside the wait
\* nor enqueued on the wait queue.
C8_NonBlockingOnEmpty ==
    /\ [][\A c \in Consumers :
            (/\ task[c].pc = "idle"
             /\ task'[c] # task[c]
             /\ task'[c].nonblock
             /\ task'[c].ret # "EINVAL"
             /\ simtemp_ringbuf_empty(ringbuf))
            => (/\ task'[c].pc = "idle"
                /\ task'[c].ret = "EAGAIN"
                /\ task'[c].state = "RUNNING"
                /\ UNCHANGED <<ringbuf, threshold_crossed, stats, wait_queue,
                               delivered, taken>>)]_vars
    /\ [](\A c \in Consumers :
            (task[c].pc # "idle" /\ task[c].nonblock) =>
                ~Waiting(c) /\ c \notin wait_queue /\ task[c].state = "RUNNING")

C8_Witness ==
    \E c \in Consumers :
      /\ Finished(c)
      /\ task[c].nonblock
      /\ task[c].ret # "EINVAL"
      /\ task[c].ret = "EAGAIN"
      /\ task[c].calls = 2
      /\ Len(delivered[c]) = 1

\* C9: a read returns -ERESTARTSYS only from the wait of a blocking read, on
\* an empty buffer and having dequeued nothing in that call; that step, and
\* every step that moves a consumer into or inside the wait, leaves head, tail,
\* the buffer, the counters and the samples dequeued and returned unchanged.
C9_CancelledConsumesNothing ==
    [][\A c \in Consumers :
         /\ (task'[c].calls = task[c].calls + 1 /\ task'[c].ret = "ERESTARTSYS")
              => (/\ Waiting(c)
                  /\ ~task[c].nonblock
                  /\ task[c].sigpending
                  /\ task[c].sample = ZeroSample
                  /\ simtemp_ringbuf_empty(ringbuf)
                  /\ c \notin wait_queue'
                  /\ UNCHANGED <<ringbuf, stats, delivered, taken>>)
         /\ ((Waiting(c) \/ Waiting(c)') /\ task'[c] # task[c])
              => UNCHANGED <<ringbuf, stats.read_count, delivered, taken>>]_vars

C9_Witness ==
    \E c \in Consumers :
      /\ Finished(c)
      /\ task[c].ret = "ERESTARTSYS"
      /\ Len(delivered[c]) = 1
      /\ stats.read_count = 1

\* C10: with one blocking reader and a producer that keeps ticking, a reader
\* asleep on an empty buffer while a tick remains eventually has its read
\* return a sample; and the reader is never asleep on a non-empty buffer
\* unless the callback that filled it has its wake-up still to do.
C10_NoLostWakeup ==
    /\ [](\A c \in Consumers :
            (Asleep(c) /\ ~simtemp_ringbuf_empty(ringbuf)) => cb.pc = "wake")
    /\ \A n \in 0..MaxLiveCalls :
         (/\ Asleep(1)
          /\ simtemp_ringbuf_empty(ringbuf)
          /\ Len(history) < MaxLiveTicks
          /\ Len(delivered[1]) = n)
         ~> (Finished(1) /\ task[1].ret = "OK" /\ Len(delivered[1]) = n + 1)

C10_Witness ==
    /\ task[1].pc = "rc_store"
    /\ task[1].slept
    /\ task[1].calls = 1
    /\ Len(delivered[1]) = 1

\* C11: the latch starts Below; a tick flags its sample and adds one to
\* threshold_alerts exactly when the latch was Below and the temperature is
\* above the threshold, and adds nothing otherwise; after the tick the latch
\* is Above exactly when the temperature is above the threshold; the sample
\* put is the sample so flagged; no other step changes the latch or the
\* alert counter.
C11_LatchStateMachine ==
    /\ ~threshold_crossed
    /\ [][/\ TickStep =>
              LET temp == cb'.temp_mC
                  flagged == Flagged(cb'.sample)
              IN  /\ flagged <=> (~threshold_crossed /\ temp > threshold_mC)
                  /\ stats'.threshold_alerts =
                        stats.threshold_alerts + (IF flagged THEN 1 ELSE 0)
                  /\ threshold_crossed' = (temp > threshold_mC)
                  /\ cb'.sample.temp_mC = temp
          /\ PutStep => history'[Len(history')].sample = cb.sample
          /\ ~TickStep =>
              /\ threshold_crossed' = threshold_crossed
              /\ stats'.threshold_alerts = stats.threshold_alerts]_vars

C11_Witness ==
    \E i \in 1..Len(history) :
      /\ i + 3 <= Len(history)
      /\ history[i].sample.temp_mC <= threshold_mC
      /\ history[i + 1].sample.temp_mC > threshold_mC
      /\ Flagged(history[i + 1].sample)
      /\ history[i + 2].sample.temp_mC > threshold_mC
      /\ ~Flagged(history[i + 2].sample)
      /\ history[i + 3].sample.temp_mC <= threshold_mC
      /\ ~Flagged(history[i + 3].sample)
      /\ stats.threshold_alerts = 1

\* C12: when the first five ticks generate the temperatures 40000, 46000,
\* 47000, 44000, 46000 with the threshold at 45000, samples 2 and 5 carry the
\* THRESHOLD_CROSSED flag, samples 1, 3 and 4 do not, and threshold_alerts is
\* 2 after the fifth tick.
C12_Sequence == <<40000, 46000, 47000, 44000, 46000>>

C12_LatchSequence ==
    (/\ threshold_mC = 45000
     /\ Len(history) >= 5
     /\ SubSeq(HistoryTemps, 1, 5) = C12_Sequence) =>
        /\ \A i \in 1..5 : Flagged(history[i].sample) <=> i \in {2, 5}
        /\ TicksFired = 5 => stats.threshold_alerts = 2

C12_Witness ==
    /\ threshold_mC = 45000
    /\ HistoryTemps = C12_Sequence
    /\ TicksFired = 5
    /\ Flagged(history[5].sample)
    /\ stats.threshold_alerts = 2

\* C13: a successful threshold write sets threshold_mC to the value written
\* and changes nothing else: not the latch, not the counters, not the ring
\* buffer, not the timer.  Only a successful threshold write changes
\* threshold_mC and only a tick changes the latch, so the first tick after a
\* write finds the latch as it was before the write; it flags its sample
\* exactly when that latch is Below and its temperature is above the new
\* threshold.
C13_ThresholdWrite ==
    [][/\ \A w \in Writers :
            (StoreSucceeds(w) /\ StoreTo(w, "threshold_mC")) =>
                /\ threshold_mC' = wr'[w].val
                /\ UNCHANGED <<ringbuf, stats, threshold_crossed, sampling_ms,
                               sampling_period, mode, current_temp_mC,
                               ramp_direction, timer, cb, history, config_lock>>
       /\ (\A w \in Writers :
             ~(StoreSucceeds(w) /\ StoreTo(w, "threshold_mC")))
            => threshold_mC' = threshold_mC
       /\ ~TickStep => threshold_crossed' = threshold_crossed
       /\ TickStep =>
            /\ threshold_mC' = threshold_mC
            /\ Flagged(cb'.sample)
                 <=> (~threshold_crossed /\ cb'.temp_mC > threshold_mC)
            /\ threshold_crossed' = (cb'.temp_mC > threshold_mC)]_vars

\* the write raised the threshold between a tick below the old threshold and
\* a tick above the old but not above the new threshold, with the first
\* sample still buffered
C13_Witness ==
    /\ wr[1].ret = "OK"
    /\ threshold_mC > DEFAULT_THRESHOLD_MC
    /\ Len(history) >= 2
    /\ history[1].sample.temp_mC <= DEFAULT_THRESHOLD_MC
    /\ history[2].sample.temp_mC > DEFAULT_THRESHOLD_MC
    /\ history[2].sample.temp_mC <= threshold_mC
    /\ ~Flagged(history[2].sample)
    /\ stats.threshold_alerts = 0
    /\ Live(ringbuf)[1] = history[1].sample

\* C14: with the mode set to ramp before the first tick, tick k generates
\* 40000 + 500 k for k <= 60, then 70000 - 500 (k - 60) down to 30000 at
\* k = 140, then 30000 + 500 (k - 140); the direction is down after ticks 60
\* to 139 and up otherwise; current_temp_mC is the last temperature.
RampExpected(k) ==
    IF k <= 60 THEN 40000 + 500 * k
    ELSE IF k <= 140 THEN 70000 - 500 * (k - 60)
    ELSE 30000 + 500 * (k - 140)

C14_RampSequence ==
    /\ \A k \in 1..Len(history) :
         history[k].sample.temp_mC = RampExpected(k)
    /\ current_temp_mC = RampExpected(TicksFired)
    /\ ramp_direction = (TicksFired < 60 \/ TicksFired >= 140)

C14_Witness ==
    /\ Len(history) = 141
    /\ history[60].sample.temp_mC = 70000
    /\ history[61].sample.temp_mC = 69500
    /\ history[140].sample.temp_mC = 30000
    /\ history[141].sample.temp_mC = 30500

\* C15: every tick generates a temperature in the range of the mode it ran
\* in: 43000..47000 in normal, 30000..60000 in noisy, 30000..70000 in ramp;
\* with a mode value that is none of the three it generates a temperature in
\* 43000..47000 and leaves current_temp_mC and ramp_direction unchanged.
C15_ModeRanges ==
    [][TickStep =>
        LET t == cb'.temp_mC
        IN  /\ cb'.sample.temp_mC = t
            /\ mode = SIMTEMP_MODE_NORMAL => (43000 <= t /\ t <= 47000)
            /\ mode = SIMTEMP_MODE_NOISY => (30000 <= t /\ t <= 60000)
            /\ mode = SIMTEMP_MODE_RAMP => (30000 <= t /\ t <= 70000)
            /\ mode \notin {SIMTEMP_MODE_NORMAL, SIMTEMP_MODE_NOISY,
                             SIMTEMP_MODE_RAMP} =>
                 /\ 43000 <= t /\ t <= 47000
                 /\ UNCHANGED <<current_temp_mC, ramp_direction>>]_vars

C15_Witness ==
    /\ mode = SIMTEMP_MODE_NOISY
    /\ Len(history) = 2
    /\ history[1].sample.temp_mC = 30000
    /\ history[2].sample.temp_mC = 59999

\* C16: a store returns an error exactly when its text is no number, or the
\* period is outside 1..10000, or the threshold is outside -40000..125000, or
\* the mode name is none of normal, noisy and ramp; the error is -EINVAL and
\* the step that returns it leaves sampling_ms, sampling_period,
\* threshold_mC, mode and the timer (armed or not, and its expiry) unchanged.
InvalidWrite(f) ==
    IF f.attr = "sampling_ms" THEN ~f.num \/ f.val < 1 \/ f.val > 10000
    ELSE IF f.attr = "threshold_mC"
    THEN ~f.num \/ f.val < -40000 \/ f.val > 125000
    ELSE StripNewline(f.buf) \notin {NameNormal, NameNoisy, NameRamp}

C17_WriteReadBack ==
    [][/\ \A w \in Writers :
            /\ (StoreSucceeds(w) /\ StoreTo(w, "sampling_ms")) =>
                 /\ kstrtouint(sampling_ms_show') =
                      [ret |-> "OK", val |-> wr'[w].val]
                 /\ sampling_ms_show' = Append(Decimal(wr'[w].val), "\n")
                 /\ timer'.enqueued
                 /\ timer'.expires = now' + 1000 * wr'[w].val
                 /\ UNCHANGED <<threshold_mC, mode>>
            /\ (wr[w].pc = "idle" /\ wr'[w].pc = "restart") =>
                 UNCHANGED <<threshold_mC, mode>>
            /\ (StoreSucceeds(w) /\ StoreTo(w, "threshold_mC")) =>
                 /\ kstrtoint(threshold_mC_show') =
                      [ret |-> "OK", val |-> wr'[w].val]
                 /\ UNCHANGED <<sampling_ms, sampling_period, mode, timer>>
            /\ (StoreSucceeds(w) /\ StoreTo(w, "mode")) =>
                 /\ mode' = wr'[w].val
                 /\ mode_show' = Append(StripNewline(wr'[w].buf), "\n")
                 /\ UNCHANGED <<sampling_ms, sampling_period, threshold_mC,
                                timer>>
       /\ TickStep =>
            /\ timer.enqueued
            /\ now' = timer.expires
            /\ cb'.sample.timestamp_ns = timer.expires]_vars

\* the period was set to 20 ms after the first tick and the second tick came
\* 20 ms after the restart
C17_Witness ==
    /\ wr[1].ret = "OK"
    /\ wr[1].attr = "sampling_ms"
    /\ sampling_ms_show = <<"2", "0", "\n">>
    /\ Len(history) = 2
    /\ history[2].sample.timestamp_ns - history[1].sample.timestamp_ns = 20000

\* C18: whenever the callback is not running the timer is armed, with its
\* expiry in the future once a period write has restarted it; the timer is
\* disarmed only by its own expiry, which starts one run of the callback,
\* and each run puts one sample and counts one; this holds with several
\* writers of the period racing each other and the callback.
C18_OneFiringPending ==
    /\ [](timer.enqueued <=> cb.pc = "idle")
    /\ [](stats.total_samples = Len(history))
    /\ [][/\ (timer.enqueued /\ ~timer'.enqueued) => TickStep
          /\ TickStep => (timer.enqueued /\ ~timer'.enqueued)
          /\ PutStep => Len(history') = Len(history) + 1
          /\ ~PutStep => history' = history
          /\ \A w \in Writers :
               (StoreSucceeds(w) /\ StoreTo(w, "sampling_ms")) =>
                   (timer'.enqueued /\ timer'.expires > now')]_vars

\* two writers have each completed a period write and a tick came between
\* and after them
C18_Witness ==
    /\ \A w \in {1, 2} : wr[w].writes = 1 /\ wr[w].ret = "OK"
    /\ wr[1].val # wr[2].val
    /\ Len(history) = 2
    /\ history[2].sample.timestamp_ns - history[1].sample.timestamp_ns
         \notin {20000, 50000, 100000}
    /\ timer.enqueued

\* C19: at most one writer is between mutex_lock and mutex_unlock, and
\* config_lock names it; whenever the lock is free sampling_period is the
\* period of sampling_ms; the writer that restarts the timer finds
\* sampling_ms and sampling_period as it wrote them and arms the timer with
\* that period.
C19_WritersExclusive ==
    /\ [](/\ Cardinality({w \in Writers : wr[w].pc = "restart"}) <= 1
          /\ \A w \in Writers : wr[w].pc = "restart" <=> config_lock = w
          /\ config_lock = 0 => sampling_period = 1000 * sampling_ms)
    /\ [][\A w \in Writers :
            (StoreSucceeds(w) /\ StoreTo(w, "sampling_ms")) =>
                /\ sampling_ms = wr[w].val
                /\ sampling_period = 1000 * wr[w].val
                /\ sampling_ms' = wr[w].val
                /\ sampling_period' = 1000 * wr[w].val
                /\ timer'.expires - now' = 1000 * wr[w].val]_vars

\* one writer is inside the lock with its period written while the other
\* has completed a write of a different period
C19_Witness ==
    \E w1, w2 \in Writers :
      /\ wr[w1].pc = "restart"
      /\ config_lock = w1
      /\ wr[w2].pc = "idle" /\ wr[w2].writes = 1 /\ wr[w2].ret = "OK"
      /\ wr[w1].val # wr[w2].val
      /\ sampling_ms = wr[w1].val

\* C20: every tick that finds the ring buffer full increments a drop
\* indicator of the device by one (and no other step does): some counter of
\* dev->stats is, in every state, the number of ticks whose sample was
\* dropped so far.
C20_DropCounted ==
    \E f \in DOMAIN stats : stats[f] = DroppedCount

\* C21: every consumer asleep in a blocking read on the empty buffer when
\* simtemp_remove has cancelled the timer and is about to wake the waiters
\* eventually returns from its read.
C21_ShutdownWakesAll ==
    \A c \in Consumers :
      (rm.pc = "wake" /\ Asleep(c) /\ simtemp_ringbuf_empty(ringbuf))
          ~> (task[c].pc = "idle")

\* C22: once simtemp_remove has cancelled the timer no tick runs: no step
\* changes total_samples, the latch, the generator state or the head of the
\* ring buffer, also when a period write runs during or after the cancel.
C22_NoTickAfterCancel ==
    [][rm.pc # "idle" =>
         /\ stats'.total_samples = stats.total_samples
         /\ threshold_crossed' = threshold_crossed
         /\ current_temp_mC' = current_temp_mC
         /\ ramp_direction' = ramp_direction
         /\ ringbuf'.head = ringbuf.head]_vars

\* the reads that returned a sample to their caller, over consumers 1..n
RECURSIVE ReadsDeliveredUpTo(_)
ReadsDeliveredUpTo(n) ==
    IF n = 0 THEN 0 ELSE ReadsDeliveredUpTo(n - 1) + Len(delivered[n])

\* C23: whenever no read() is in progress, read_count is the number of read
\* calls that returned a sample: a read that failed (size mismatch, no data,
\* interrupted, copy to the caller failed) has not changed it.
C23_ReadCountExact ==
    (\A c \in Consumers : task[c].pc = "idle") =>
        stats.read_count = ReadsDeliveredUpTo(NumConsumers)

\* consumer c is inside simtemp_poll; this step is a step of its poll call
InPoll(c) == task[c].pc \in {"poll_count", "poll_data", "poll_pri"}

PollStep(c) == task'[c] # task[c] /\ (InPoll(c) \/ task'[c].pc = "poll_count")

\* the poll calls that have returned, over consumers 1..n
RECURSIVE PollsUpTo(_)
PollsUpTo(n) == IF n = 0 THEN 0 ELSE PollsUpTo(n - 1) + task[n].polls

\* C24: every poll call adds one to poll_count, whatever mask it returns
\* (with no poll in progress poll_count is the number of poll calls made),
\* and no step of a poll call changes the ring buffer, the latch, another
\* counter, the configuration or what the consumers have received.
C24_PollCountsOnly ==
    /\ []((\A c \in Consumers : ~InPoll(c)) =>
            stats.poll_count = PollsUpTo(NumConsumers))
    /\ [][\A c \in Consumers :
            PollStep(c) =>
                /\ ringbuf' = ringbuf
                /\ threshold_crossed' = threshold_crossed
                /\ stats' = [stats EXCEPT !.poll_count = stats'.poll_count]
                /\ UNCHANGED <<sampling_ms, sampling_period, threshold_mC,
                               mode, delivered, taken>>]_vars

\* the readable bits and the alert bit of a mask
Readable(m) == BitAnd(m, BitOr(EPOLLIN, EPOLLRDNORM))

AlertLatched(m) == BitAnd(m, EPOLLPRI)

\* C25: the mask of a poll call has EPOLLIN | EPOLLRDNORM exactly when the
\* ring buffer is not empty at the locked test, and EPOLLPRI exactly when
\* dev->threshold_crossed is set when it is read; it has no other bit, and it
\* is 0 exactly when the buffer was empty and the latch clear at those tests.
C25_PollMask ==
    [][\A c \in Consumers :
         /\ (task[c].pc = "poll_data" /\ task'[c].pc = "poll_pri") =>
               /\ task[c].mask = 0
               /\ task'[c].mask = IF simtemp_ringbuf_empty(ringbuf) THEN 0
                                  ELSE BitOr(EPOLLIN, EPOLLRDNORM)
         /\ (task[c].pc = "poll_pri" /\ task'[c].pc = "idle") =>
               /\ Readable(task'[c].mask) = task[c].mask
               /\ AlertLatched(task'[c].mask) =
                     (IF threshold_crossed THEN EPOLLPRI ELSE 0)
               /\ task'[c].mask =
                     Readable(task'[c].mask) + AlertLatched(task'[c].mask)
               /\ (task'[c].mask = 0) <=>
                     (task[c].mask = 0 /\ ~threshold_crossed)]_vars

\* one poll returned the alert bit alone (the buffer drained, the latch set)
\* and another returned 0 (nothing buffered, the latch clear)
C25_Witness ==
    \E c, d \in Consumers :
      /\ task[c].pc = "idle" /\ task[c].polls > 0
      /\ task[c].mask = EPOLLPRI
      /\ task[d].pc = "idle" /\ task[d].polls > 0
      /\ task[d].mask = 0

\* C26: a read() with a count below sizeof(struct simtemp_sample) returns
\* -EINVAL at once, with O_NONBLOCK or without, with the buffer empty or
\* not: the caller does not sleep, no sample is dequeued and no counter
\* changes.
C26_ShortReadRejected ==
    [][\A c \in Consumers :
         (/\ task[c].pc = "idle"
          /\ task'[c] # task[c]
          /\ task'[c].pc # "poll_count"
          /\ task'[c].count < SizeofSample) =>
             /\ task'[c].pc = "idle"
             /\ task'[c].ret = "EINVAL"
             /\ task'[c].calls = task[c].calls + 1
             /\ task'[c].state = "RUNNING"
             /\ UNCHANGED <<ringbuf, stats, wait_queue, delivered, taken>>]_vars

\* a blocking and a non-blocking read with a short count have both failed;
\* a sample is buffered and read_count is still 0
C26_Witness ==
    \E c, d \in Consumers :
      /\ task[c].pc = "idle" /\ task[c].ret = "EINVAL"
      /\ ~task[c].nonblock /\ task[c].count < SizeofSample
      /\ task[d].pc = "idle" /\ task[d].ret = "EINVAL"
      /\ task[d].nonblock /\ task[d].count < SizeofSample
      /\ ~simtemp_ringbuf_empty(ringbuf)
      /\ stats.read_count = 0

\* the samples the callback enqueued, in enqueue order
EnqueuedSamples ==
    LET ok == SelectSeq(history, LAMBDA e : e.ret = "OK")
    IN  [i \in 1..Len(ok) |-> ok[i].sample]

\* the flags of a sample are well formed: NEW_SAMPLE is set and no bit other
\* than NEW_SAMPLE and THRESHOLD_CROSSED is
FlagsWellFormed(sample) ==
    /\ BitAnd(sample.flags, SIMTEMP_FLAG_NEW_SAMPLE) = SIMTEMP_FLAG_NEW_SAMPLE
    /\ BitAnd(sample.flags, BitOr(SIMTEMP_FLAG_NEW_SAMPLE,
                                  SIMTEMP_FLAG_THRESHOLD_CROSSED)) = sample.flags

\* C27: every sample in the ring buffer and every sample a read dequeued or
\* returned has flag bit 0 set and no bit besides bits 0 and 1; the samples
\* dequeued so far followed by the samples buffered are, field by field, the
\* samples as they were enqueued, and a read returns a dequeued sample.
C27_SamplesWellFormed ==
    LET live == Live(ringbuf)
    IN  /\ \A i \in 1..Len(live) : FlagsWellFormed(live[i])
        /\ \A i \in 1..Len(taken) : FlagsWellFormed(taken[i])
        /\ \A c \in Consumers : \A i \in 1..Len(delivered[c]) :
              /\ FlagsWellFormed(delivered[c][i])
              /\ \E k \in 1..Len(taken) : taken[k] = delivered[c][i]
        /\ taken \o live = EnqueuedSamples

\* the buffer is full again after reads took samples from it, and a sample
\* with the THRESHOLD_CROSSED flag was returned while another is buffered
C27_Witness ==
    LET live == Live(ringbuf)
    IN  /\ RingFull(ringbuf)
        /\ \E i \in 1..Len(delivered[1]) : Flagged(delivered[1][i])
        /\ \E i \in 1..Len(live) : Flagged(live[i])

\* C30: in every state, from the probe on (Device Tree properties included)
\* and after any configuration writes, sampling_ms is in 1..10000,
\* threshold_mC in -40000..125000 and mode is normal, noisy or ramp.
C30_ConfigInRange ==
    /\ sampling_ms \in SIMTEMP_SAMPLING_MS_MIN..SIMTEMP_SAMPLING_MS_MAX
    /\ threshold_mC \in SIMTEMP_THRESHOLD_MC_MIN..SIMTEMP_THRESHOLD_MC_MAX
    /\ mode \in {SIMTEMP_MODE_NORMAL, SIMTEMP_MODE_NOISY, SIMTEMP_MODE_RAMP}

\* the steps that need nothing but the two locks and the callback: those of
\* the callback, of the context holding the spinlock, and of a writer inside
\* hrtimer_cancel()
LockProgress == CallbackLock \/ HolderLock \/ RestartLock

\* C28: config_lock is taken by the stores only and dev->ringbuf.lock by the
\* callback, the reads and the polls only, so no context takes config_lock
\* while it holds the ring-buffer lock; and whenever a lock is held, a step
\* of the lock holders or of the callback is possible: no set of contexts
\* waits for each other.
C28_LockOrder ==
    /\ [](/\ rb_lock \in {0, CallbackCtx} \cup Consumers
          /\ config_lock \in {0} \cup Writers
          /\ (rb_lock # 0 \/ config_lock # 0) => ENABLED LockProgress)
    /\ [][\A w \in Writers :
            (config_lock' = w /\ config_lock # w) =>
                (rb_lock # WriterCtx(w) /\ rb_lock' # WriterCtx(w))]_vars

\* the longest chain of waits: the writer holds config_lock inside
\* hrtimer_cancel() and waits for the callback, the callback spins on the
\* ring-buffer lock, and a consumer holds that lock
C28_Witness ==
    /\ config_lock = 1 /\ wr[1].pc = "restart"
    /\ cb.pc = "put"
    /\ rb_lock \in Consumers

\* C29: the callback never needs config_lock nor a step of a consumer
\* outside the spinlock: its put is possible whenever the ring-buffer lock is
\* free or its own, and its wake-up and re-arm always; every tick that
\* started returns, and every period write that holds config_lock in
\* hrtimer_cancel() returns.
C29_TickNeverBlocked ==
    /\ [](/\ (cb.pc = "put" /\ SpinLockOpen(CallbackCtx)) => ENABLED CbPut
          /\ cb.pc = "wake" => ENABLED CbWake)
    /\ (cb.pc # "idle") ~> (cb.pc = "idle")
    /\ \A w \in Writers : (wr[w].pc = "restart") ~> (wr[w].pc = "idle")

\* a period write holds config_lock and waits for the tick in flight, which
\* is about to wake the waiters, while a consumer sleeps in a blocking read
C29_Witness ==
    /\ config_lock = 1 /\ wr[1].pc = "restart"
    /\ cb.pc = "wake"
    /\ Asleep(1)

\* C31: no step lowers total_samples, threshold_alerts, read_count or
\* poll_count, whatever the interleaving of the producer, the reads and the
\* polls.
C31_CountersMonotonic ==
    [][/\ stats'.total_samples >= stats.total_samples
       /\ stats'.threshold_alerts >= stats.threshold_alerts
       /\ stats'.read_count >= stats.read_count
       /\ stats'.poll_count >= stats.poll_count]_vars

\* a tick has started, or can start: the timer is armed, the callback runs,
\* or a sample was produced
PipelineLive ==
    \/ timer.enqueued
    \/ cb.pc # "idle"
    \/ history # <<>>
    \/ stats.total_samples > 0
    \/ ~simtemp_ringbuf_empty(ringbuf)

\* C32: the timer is armed, and a tick runs, only once the misc device and
\* the attribute group are both registered; when simtemp_probe fails at
\* either registration, no tick fires, no sample is produced and the misc
\* device is not registered.
C32_InitAllOrNothing ==
    /\ PipelineLive => (probe.misc /\ probe.sysfs)
    /\ probe.pc = "failed" =>
          /\ ~PipelineLive
          /\ ~probe.misc
          /\ ~probe.sysfs
          /\ probe.ret = "ERR"

\* the attribute group failed after the misc device had been registered and
\* a consumer had read from it
C32_Witness ==
    /\ probe.pc = "failed"
    /\ task[1].calls > 0

\* the state simtemp_probe establishes without Device Tree overrides
DefaultState ==
    /\ sampling_ms = DEFAULT_SAMPLING_MS
    /\ sampling_period = ms_to_ktime(DEFAULT_SAMPLING_MS)
    /\ threshold_mC = DEFAULT_THRESHOLD_MC
    /\ mode = SIMTEMP_MODE_NORMAL
    /\ current_temp_mC = InitialTempMC
    /\ ramp_direction
    /\ ~threshold_crossed
    /\ ringbuf.head = 0 /\ ringbuf.tail = 0
    /\ simtemp_ringbuf_empty(ringbuf)
    /\ stats.total_samples = 0 /\ stats.threshold_alerts = 0
    /\ stats.read_count = 0 /\ stats.poll_count = 0

\* C33: once simtemp_probe has set up the device and until the first tick
\* or the first store, the period is 100, the threshold 45000, the mode
\* normal, the generator at 40000 going up, the latch clear, the ring buffer
\* empty with head = tail = 0 and the four counters zero; and no tick runs,
\* and the timer is not armed, before that set-up is complete.
C33_DefaultInitialState ==
    /\ (/\ probe.pc \notin {"config", "failed"}
        /\ history = <<>> /\ cb.pc = "idle"
        /\ \A w \in Writers : wr[w].writes = 0 /\ wr[w].pc = "idle")
          => DefaultState
    /\ probe.pc = "config" => ~PipelineLive

\* the probe has returned 0 with the timer armed; nothing has run yet
C33_Witness ==
    /\ probe.pc = "done"
    /\ timer.enqueued
    /\ history = <<>>
    /\ DefaultState

\* the samples with the THRESHOLD_CROSSED flag: built by a tick so far, built
\* and dropped on a full buffer, and among the samples that are or were in
\* the ring buffer
FlaggedBuilt ==
    Cardinality({i \in 1..Len(history) : Flagged(history[i].sample)})

FlaggedDropped ==
    Cardinality({i \in 1..Len(history) :
                    Flagged(history[i].sample) /\ history[i].ret = "ENOSPC"})

FlaggedEnqueued ==
    LET all == taken \o Live(ringbuf)
    IN  Cardinality({i \in 1..Len(all) : Flagged(all[i])})

NoReadInFlight == \A c \in Consumers : task[c].pc = "idle"

\* C35: between ticks total_samples is the number of ticks executed, their
\* sample enqueued or not; and with no read in progress every sample
\* produced is accounted for: total_samples is the samples reads returned
\* plus the samples buffered plus the samples dropped on a full buffer.
C35_SamplesConserved ==
    cb.pc = "idle" =>
        /\ stats.total_samples = Len(history)
        /\ NoReadInFlight =>
              stats.total_samples = ReadsDeliveredUpTo(NumConsumers)
                                    + simtemp_ringbuf_count(ringbuf)
                                    + DroppedCount

\* one step of the triangular wave from temperature cur in direction dir
RampNext(cur, dir) ==
    IF dir THEN (IF cur + 500 >= 70000 THEN 70000 ELSE cur + 500)
    ELSE (IF cur - 500 <= 30000 THEN 30000 ELSE cur - 500)

\* C36: current_temp_mC and ramp_direction change only in the step that
\* starts a tick in ramp mode; such a tick continues the triangular wave
\* from the values they have, whatever ticks in other modes, reads, polls
\* and stores came in between; current_temp_mC is always a multiple of 500
\* in 30000..70000.
C36_GeneratorFrame ==
    /\ [](/\ current_temp_mC % 500 = 0
          /\ 30000 <= current_temp_mC /\ current_temp_mC <= 70000)
    /\ [][/\ (current_temp_mC' # current_temp_mC
               \/ ramp_direction' # ramp_direction)
                 => (TickStep /\ mode = SIMTEMP_MODE_RAMP)
          /\ (TickStep /\ mode = SIMTEMP_MODE_RAMP) =>
                /\ current_temp_mC' = RampNext(current_temp_mC, ramp_direction)
                /\ cb'.temp_mC = current_temp_mC']_vars

\* a ramp tick, a tick in another mode, and a ramp tick again that resumed
\* at the next step of the wave, with a read and a poll made
C36_Witness ==
    /\ Len(history) = 3
    /\ history[1].sample.temp_mC = 40500
    /\ history[2].sample.temp_mC # 41000
    /\ history[3].sample.temp_mC = 41000
    /\ current_temp_mC = 41000
    /\ task[1].calls > 0
    /\ task[1].polls > 0

\* C37: between ticks threshold_alerts is at most (total_samples + 1) / 2.
\* An alert is counted only by a tick that finds the latch clear and sets
\* it, and the latch is cleared only by a tick whose temperature is not
\* above the threshold it reads, so no two ticks in a row count an alert,
\* whatever is stored to the threshold between them.
C37_AlertsAtMostHalf ==
    /\ [](/\ cb.pc = "idle" =>
               stats.threshold_alerts <= (stats.total_samples + 1) \div 2
          /\ \A i \in 1..(Len(history) - 1) :
               ~(Flagged(history[i].sample) /\ Flagged(history[i + 1].sample)))
    /\ [][/\ stats'.threshold_alerts # stats.threshold_alerts =>
               /\ TickStep
               /\ ~threshold_crossed /\ threshold_crossed'
               /\ stats'.threshold_alerts = stats.threshold_alerts + 1
          /\ (threshold_crossed /\ ~threshold_crossed') =>
               (TickStep /\ cb'.temp_mC <= threshold_mC)]_vars

\* the bound is met: two alerts in four ticks, the second made possible by a
\* store that raised the threshold above the temperature of the tick between
\* them
C37_Witness ==
    /\ cb.pc = "idle"
    /\ stats.total_samples = 4
    /\ stats.threshold_alerts = 2
    /\ wr[1].ret = "OK"
    /\ threshold_mC > DEFAULT_THRESHOLD_MC
    /\ Flagged(history[2].sample) /\ Flagged(history[4].sample)
    /\ history[3].sample.temp_mC > DEFAULT_THRESHOLD_MC
    /\ history[3].sample.temp_mC <= threshold_mC

\* the steps of the single-slot variant: an update of the slot, the flag
\* being set, a read returning, a poll returning
SlotUpdateStep == fake_temp'.updates = fake_temp.updates + 1

SlotReadyStep == fake_temp.running /\ ~fake_temp'.running

SlotReadReturns == fake_temp'.reads = fake_temp.reads + 1

SlotPollReturns == fake_temp'.polls = fake_temp.polls + 1

\* C38: every update overwrites current_temp and temp_buffer with the new
\* value and then sets temp_ready, read or not; a read that finds temp_ready
\* clear returns 0 and changes none of the statics nor the file position; a
\* read that finds it set clears it and, for a count above 0 and a writable
\* buffer, returns a non-empty text that starts the newest text, on every
\* read of the open file; poll returns POLLIN | POLLRDNORM exactly when
\* temp_ready is set.
C38_LatestWins ==
    [][/\ SlotUpdateStep =>
            /\ fake_temp'.temp_buffer =
                   FormatTemp(fake_temp'.current_temp, fake_temp'.updates)
            /\ fake_temp'.running
       /\ SlotReadyStep => fake_temp'.temp_ready = 1
       /\ (SlotReadReturns /\ fake_temp.pc = "idle") =>
            /\ fake_temp.temp_ready = 0
            /\ fake_temp'.ret = 0
            /\ fake_temp'.temp_ready = 0
            /\ fake_temp'.temp_buffer = fake_temp.temp_buffer
            /\ fake_temp'.current_temp = fake_temp.current_temp
            /\ fake_temp'.f_pos = fake_temp.f_pos
       /\ (SlotReadReturns /\ fake_temp.pc = "copy") =>
            /\ fake_temp'.temp_ready = 0
            /\ (fake_temp.count > 0 /\ fake_temp.bufok) =>
                 /\ fake_temp'.ret > 0
                 /\ fake_temp'.out =
                        SubSeq(fake_temp.temp_buffer, 1, fake_temp'.ret)
       /\ SlotPollReturns =>
            (fake_temp'.mask = BitOr(POLLIN, POLLRDNORM)
               <=> fake_temp.temp_ready # 0)
       /\ SlotPollReturns =>
            (fake_temp'.mask = 0 <=> fake_temp.temp_ready = 0)]_vars

====
